---- MODULE Spec2Model ----
(***************************************************************************)
(* A model of the analytics engine of the GPU spend platform:              *)
(*   - computer/connect/base.py   GPUInstance, UsageRecord, BaseConnector   *)
(*   - computer/see/aggregator.py SpendAggregator                           *)
(*   - computer/see/models.py     the breakdown and summary records         *)
(*   - computer/waste/rules.py    the waste rules                           *)
(*   - computer/waste/detector.py WasteDetector                             *)
(*   - computer/forecast/predictor.py  CostPredictor                        *)
(*   - computer/optimize/recommender.py Recommender                         *)
(*                                                                         *)
(* Units.  Money (hourly_cost, cost) and hours are integers.  A Python      *)
(* Optional value is a sequence: <<>> is None and <<v>> is the value v.     *)
(* Products with a decimal factor are kept exact by a stated scale:         *)
(* estimated_waste_per_day is held in thousandths (WasteScale) and          *)
(* potential_savings in tenths.  An average is held as the pair             *)
(* <<sum, count>> whose quotient the code returns.  The predictor divides    *)
(* by data-dependent numbers: its results are exact fractions <<n, d>> with  *)
(* d > 0 in lowest terms.  Savings of recommendations are in thousandths.    *)
(* Dates are in hours, a day is 24 of them and a month 30 days.              *)
(* Floating-point rounding is outside the model.                            *)
(***************************************************************************)
EXTENDS Integers, Sequences, FiniteSets, TLC

VARIABLES
    \* ---- SpendAggregator and its environment
    connectors,      \* SpendAggregator.connectors: the registered connectors, in order
    gen,             \* which data the providers serve at the moment (it changes between calls)
    op,              \* the aggregator operation in progress, "none" when idle
    pc,              \* the position inside that operation
    idx,             \* the loop index into connectors (1-based)
    instances,       \* the local list `instances` of get_all_instances
    usage_records,   \* the local list `records` of get_all_usage
    window,          \* <<start_date, end_date>> of the call in progress (hours)
    status,          \* the local dict `status` of connect_all
    agg_out,         \* what the last call returned or that it raised, until the caller takes it
    prev,            \* the summary returned by the previous get_summary, with its inputs
    \* ---- GPUInstance predicates and the default rule set on one instance
    inst,            \* a GPUInstance object (its fields can be assigned)
    obs,             \* what was last read off inst: is_running, is_idle, analyze_instance
    \* ---- WasteDetector
    rules,           \* WasteDetector.rules: a list of references to rule objects
    enabled,         \* the `enabled` attribute of every rule object
    waste_out,       \* the value analyze_instance / analyze returned, until the caller takes it
    \* ---- CostPredictor
    fc_out,          \* the value forecast_month / estimate_training_cost returned, until taken
    \* ---- Recommender
    rec_out          \* the value generate_recommendations returned, until taken

aggVars   == <<connectors, gen, op, pc, idx, instances, usage_records, window, status,
               agg_out, prev>>
instVars  == <<inst, obs>>
wasteVars == <<rules, enabled, waste_out>>
vars      == <<aggVars, instVars, wasteVars, fc_out, rec_out>>
otherThanAgg   == <<instVars, wasteVars, fc_out, rec_out>>
otherThanInst  == <<aggVars, wasteVars, fc_out, rec_out>>
otherThanWaste == <<aggVars, instVars, fc_out, rec_out>>
otherThanPredictor == <<aggVars, instVars, wasteVars, rec_out>>
otherThanRecommender == <<aggVars, instVars, wasteVars, fc_out>>

None == <<>>
Some(v) == <<v>>

\* ------------------------------------------------------------------------
\* Bounds of the model
\* ------------------------------------------------------------------------
MaxConnectors == 2      \* at most this many connectors are registered
MaxRules == 5           \* the detector's rule list is at most this long
MaxBatch == 2           \* analyze is given at most this many instances

\* ------------------------------------------------------------------------
\* Sequence helpers
\* ------------------------------------------------------------------------
RECURSIVE SumSeq(_)
SumSeq(s) == IF s = <<>> THEN 0 ELSE Head(s) + SumSeq(Tail(s))

Map(s, F(_)) == [k \in 1..Len(s) |-> F(s[k])]

RECURSIVE Flatten(_)
Flatten(ss) == IF ss = <<>> THEN <<>> ELSE Head(ss) \o Flatten(Tail(ss))

Range(s) == {s[i] : i \in 1..Len(s)}

SeqsUpTo(S, n) == UNION {[1..k -> S] : k \in 0..n}

\* ------------------------------------------------------------------------
\* computer/connect/base.py
\* ------------------------------------------------------------------------
GPUInstance(id, provider, gpu_type, gpu_count, region, pricing_type, hourly_cost, st, gpu_utilization, memory_utilization) ==
    [instance_id |-> id, provider |-> provider, gpu_type |-> gpu_type,
     gpu_count |-> gpu_count, region |-> region, pricing_type |-> pricing_type,
     hourly_cost |-> hourly_cost, status |-> st, tags |-> "{}",
     gpu_utilization |-> gpu_utilization, memory_utilization |-> memory_utilization]

\* an instance built with tags=...; the dict is held as the text str() gives for it
Tagged(i, tags) == [i EXCEPT !.tags = tags]

UsageRecord(id, provider, start_time, hours_used, cost, gpu_type, gpu_count, pricing_type, region) ==
    [instance_id |-> id, provider |-> provider, start_time |-> start_time,
     hours_used |-> hours_used, cost |-> cost,
     gpu_type |-> gpu_type, gpu_count |-> gpu_count, pricing_type |-> pricing_type,
     region |-> region]

\* str.lower() on the status strings of the model
lower(s) ==
    CASE s \in {"running", "RUNNING", "Running"} -> "running"
      [] s \in {"active", "Active", "ACTIVE"} -> "active"
      [] s \in {"stopped", "Stopped"} -> "stopped"
      [] OTHER -> s

is_running_nolower(i) == i.status \in {"running", "active"}
is_running(i) == lower(i.status) \in {"running", "active"}

is_idle_unknown_counts(i) ==
    IF ~is_running(i) THEN FALSE
    ELSE IF i.gpu_utilization # None THEN i.gpu_utilization[1] < 10 ELSE TRUE
is_idle(i) ==
    IF ~is_running(i) THEN FALSE
    ELSE IF i.gpu_utilization # None THEN i.gpu_utilization[1] < 10
    ELSE FALSE

\* ------------------------------------------------------------------------
\* The connectors of the model.  A connector is an external object that
\* satisfies the BaseConnector contract; each call returns a value, raises
\* or never returns.  The aggregator sees nothing else of it.
\* ------------------------------------------------------------------------
Connectors == {"aws1", "gcp1", "azure1", "runpod1", "vast1"}

provider_name(c) ==
    CASE c = "aws1" -> "aws"
      [] c = "gcp1" -> "gcp"
      [] c = "azure1" -> "azure"
      [] c = "runpod1" -> "runpod"
      [] OTHER -> "vastai"

Ok(v) == [kind |-> "ok", value |-> v]
Raises == [kind |-> "raise", value |-> <<>>]
Hangs == [kind |-> "hang", value |-> <<>>]

\* connect(): True / False, or an exception
connect(c) ==
    CASE c \in {"aws1", "vast1"} -> Ok(TRUE)
      [] c \in {"gcp1", "runpod1"} -> Ok(FALSE)
      [] OTHER -> Raises

\* list_gpu_instances(), with the providers' data in generation g
list_gpu_instances(c, g) ==
    CASE c = "aws1" ->
           Ok(<< GPUInstance("i-1", "aws", "a100-80gb", 8, "us-east-1", "on-demand", 6,
                             "running", Some(3), Some(10)),
                 GPUInstance("i-2", "aws", "t4", 1, "us-west-2", "spot", 1,
                             "stopped", Some(0), None),
                 Tagged(GPUInstance("i-3", "aws", "a100-80gb", 1, "us-east-1", "reserved", 3,
                                    "RUNNING", Some(50), None), "{'team': 'devops'}"),
                 GPUInstance("i-4", "aws", "t4", 1, "us-west-2", "on-demand", 0,
                             "running", Some(0), None) >>)
      [] c = "gcp1" ->
           IF g = 0
           THEN Ok(<< GPUInstance("g-1", "gcp", "t4", 2, "us:central1", "preemptible", 2,
                                  "Active", Some(9), Some(40)) >>)
           ELSE Ok(<< GPUInstance("g-1", "gcp", "t4", 2, "us:central1", "preemptible", 2,
                                  "Active", Some(10), Some(40)),
                      GPUInstance("g-2", "gcp", "l4", 1, "europe-west4", "on-demand", 4,
                                  "running", None, None) >>)
      [] c = "azure1" ->
           IF g = 0
           THEN Raises
           ELSE Ok(<< GPUInstance("z-1", "azure", "a100-80gb", 4, "eastus", "on-demand", 60,
                                  "running", Some(50), None),
                      Tagged(GPUInstance("z-2", "azure", "h100-80gb", 1, "eastus", "on-demand", 7,
                                         "stopped", Some(0), Some(5)), "{'env': 'dev'}"),
                      GPUInstance("z-3", "azure", "a100-80gb", 1, "westeurope", "on-demand", 4,
                                  "running", Some(70), Some(60)) >>)
      [] c = "runpod1" ->
           Ok(<< GPUInstance("r-1", "runpod", "rtx-4090", 1, "eu", "on-demand", 1,
                             "running", None, Some(20)),
                 Tagged(GPUInstance("r-2", "runpod", "rtx-4090", 1, "eu", "on-demand", 2,
                                    "running", Some(0), None), "{'Env': 'Staging'}") >>)
      [] OTHER -> Hangs

\* get_usage(start_date, end_date), with the providers' data in generation g
get_usage(c, g) ==
    CASE c = "aws1" ->
           Ok(<< UsageRecord("i-1", "aws", 50, 24, 144, "a100-80gb", 8, "on-demand", "us-east-1"),
                 UsageRecord("i-2", "aws", 30, 10, 10, "t4", 1, "spot", "us-west-2"),
                 UsageRecord("i-3", "aws", 60, 5, 15, "a100-80gb", 1, "reserved", "us-east-1") >>)
      [] c = "gcp1" ->
           IF g = 0
           THEN Ok(<< UsageRecord("g-1", "gcp", 5, 12, 24, "t4", 2, "preemptible", "us:central1") >>)
           ELSE Ok(<<>>)
      [] c = "azure1" ->
           Ok(<< UsageRecord("z-1", "azure", 80, 3, 9, "a100-80gb", 4, "on-demand", "eastus"),
                 UsageRecord("z-1", "azure", 100, 0, 0, "a100-80gb", 4, "on-demand", "eastus") >>)
      [] c = "runpod1" -> Raises
      [] OTHER -> Hangs

\* ------------------------------------------------------------------------
\* computer/see/models.py
\* ------------------------------------------------------------------------
SpotSavingsTenths == 6    \* PricingBreakdown.potential_savings: total_cost * 0.6, in tenths

potential_savings(p) ==
    IF p.pricing_type = "on-demand" THEN p.total_cost * SpotSavingsTenths ELSE 0

\* ------------------------------------------------------------------------
\* computer/see/aggregator.py: get_summary, the part after the two fan-outs
\* ------------------------------------------------------------------------
FoldSeq(F(_, _), init, s) ==
    LET f[k \in 0..Len(s)] == IF k = 0 THEN init ELSE F(f[k - 1], s[k])
    IN f[Len(s)]

\* dict lookup in insertion order: the position of key k, 0 when absent
IndexOfKey(data, k) ==
    IF \E i \in 1..Len(data) : data[i].key = k
    THEN CHOOSE i \in 1..Len(data) : data[i].key = k
    ELSE 0

\* defaultdict.__getitem__: a missing key is inserted with the default, at the end
Touch(data, k, default) == IF IndexOfKey(data, k) = 0 THEN Append(data, default) ELSE data

ProviderDefault(k) ==
    [key |-> k, cost |-> 0, hours |-> 0, instances |-> {}, running |-> 0, idle |-> 0]

\* provider_data = defaultdict(...): created empty on every call
provider_data_kept == IF prev = None THEN <<>> ELSE prev.provider_data
provider_data_seeded == <<ProviderDefault("unknown")>>
provider_data_new == <<>>

\* d[key]["cost"] += x
accumulate_overwrite(old, x) == x
accumulate(old, x) == old + x

ProviderAddRecord(data, r) ==
    LET d == Touch(data, r.provider, ProviderDefault(r.provider))
        i == IndexOfKey(d, r.provider)
    IN [d EXCEPT ![i].cost = accumulate(@, r.cost),
                 ![i].hours = accumulate(@, r.hours_used),
                 ![i].instances = @ \cup {r.instance_id}]

\* a variant that counts every instance as running
ProviderAddInstance_any_status(data, x) ==
    LET d == Touch(data, x.provider, ProviderDefault(x.provider))
        i == IndexOfKey(d, x.provider)
    IN [d EXCEPT ![i].running = @ + 1,
                 ![i].idle = IF is_idle(x) THEN @ + 1 ELSE @]

ProviderAddInstance(data, x) ==
    IF ~is_running(x) THEN data
    ELSE LET d == Touch(data, x.provider, ProviderDefault(x.provider))
             i == IndexOfKey(d, x.provider)
         IN [d EXCEPT ![i].running = @ + 1,
                      ![i].idle = IF is_idle(x) THEN @ + 1 ELSE @]

provider_data(insts, recs) ==
    FoldSeq(ProviderAddInstance, FoldSeq(ProviderAddRecord, provider_data_new, recs), insts)

ProviderBreakdown(d) ==
    [provider |-> d.key, total_cost |-> d.cost, total_hours |-> d.hours,
     instance_count |-> Cardinality(d.instances),
     running_count |-> d.running, idle_count |-> d.idle]

GpuDefault(k) == [key |-> k, cost |-> 0, hours |-> 0, count |-> 0, utilizations |-> <<>>]

GpuAddRecord(data, r) ==
    LET d == Touch(data, r.gpu_type, GpuDefault(r.gpu_type))
        i == IndexOfKey(d, r.gpu_type)
    IN [d EXCEPT ![i].cost = accumulate(@, r.cost),
                 ![i].hours = accumulate(@, r.hours_used),
                 ![i].count = @ + r.gpu_count]

GpuAddInstance(data, x) ==
    IF x.gpu_utilization = None THEN data
    ELSE LET d == Touch(data, x.gpu_type, GpuDefault(x.gpu_type))
             i == IndexOfKey(d, x.gpu_type)
         IN [d EXCEPT ![i].utilizations = Append(@, x.gpu_utilization[1])]

\* sum(xs) / len(xs) if xs else None, as the pair <<sum, len>>
Average(xs) == IF xs = <<>> THEN None ELSE <<SumSeq(xs), Len(xs)>>

GPUBreakdown(d) ==
    [gpu_type |-> d.key, total_cost |-> d.cost, total_hours |-> d.hours,
     gpu_count |-> d.count, avg_utilization |-> Average(d.utilizations)]

\* key.split(":")[-1] for a key that ends in ":" and the region: what follows the
\* last colon of the region
LastSegment(region) == IF region = "us:central1" THEN "central1" ELSE region

RegionDefault(k) == [key |-> k, cost |-> 0, count |-> 0, provider |-> "", region |-> ""]

RegionAddRecord(data, r) ==
    LET k == r.provider \o ":" \o r.region
        d == Touch(data, k, RegionDefault(k))
        i == IndexOfKey(d, k)
    IN [d EXCEPT ![i].cost = accumulate(@, r.cost),
                 ![i].count = @ + 1,
                 ![i].provider = r.provider,
                 ![i].region = LastSegment(r.region)]

RegionBreakdown(d) ==
    [region |-> d.region, provider |-> d.provider, total_cost |-> d.cost,
     instance_count |-> d.count]

PricingDefault(k) == [key |-> k, cost |-> 0, hours |-> 0, count |-> 0]

\* a variant that leaves the hours out
PricingAddRecord_cost_only(data, r) ==
    LET d == Touch(data, r.pricing_type, PricingDefault(r.pricing_type))
        i == IndexOfKey(d, r.pricing_type)
    IN [d EXCEPT ![i].cost = accumulate(@, r.cost),
                 ![i].count = @ + 1]

PricingAddRecord(data, r) ==
    LET d == Touch(data, r.pricing_type, PricingDefault(r.pricing_type))
        i == IndexOfKey(d, r.pricing_type)
    IN [d EXCEPT ![i].cost = accumulate(@, r.cost),
                 ![i].hours = accumulate(@, r.hours_used),
                 ![i].count = @ + 1]

PricingBreakdown(d) ==
    [pricing_type |-> d.key, total_cost |-> d.cost, total_hours |-> d.hours,
     instance_count |-> d.count]

\* a variant that counts a started day as a day
Days_started(start, end) == (end - start + 23) \div 24

\* timedelta.days of (end_date - start_date), dates in hours: the floor of the quotient
Days(start, end) == (end - start) \div 24

KnownUtilizations(insts) ==
    LET known == SelectSeq(insts, LAMBDA x : x.gpu_utilization # None)
    IN Map(known, LAMBDA x : x.gpu_utilization[1])

SpendSummary(insts, recs, start, end) ==
    LET by_pricing == Map(FoldSeq(PricingAddRecord, <<>>, recs), PricingBreakdown)
        idle == SelectSeq(insts, is_idle)
    IN [start_date |-> start,
        end_date |-> end,
        total_cost |-> SumSeq(Map(recs, LAMBDA r : r.cost)),
        total_gpu_hours |-> SumSeq(Map(recs, LAMBDA r : r.hours_used)),
        total_instances |-> Len(insts),
        running_instances |-> Len(SelectSeq(insts, is_running)),
        idle_instances |-> Len(idle),
        by_provider |-> Map(provider_data(insts, recs), ProviderBreakdown),
        by_gpu_type |-> Map(FoldSeq(GpuAddInstance, FoldSeq(GpuAddRecord, <<>>, recs), insts),
                            GPUBreakdown),
        by_region |-> Map(FoldSeq(RegionAddRecord, <<>>, recs), RegionBreakdown),
        by_pricing |-> by_pricing,
        avg_gpu_utilization |-> Average(KnownUtilizations(insts)),
        estimated_waste |-> SumSeq(Map(idle, LAMBDA x : x.hourly_cost * 24 * Days(start, end))),
        potential_savings |-> SumSeq(Map(by_pricing, potential_savings))]

\* ------------------------------------------------------------------------
\* computer/see/aggregator.py: the operations, one step per connector call
\* ------------------------------------------------------------------------
Idle == [op |-> "none", kind |-> "none", value |-> <<>>]
Returned(o, v) == [op |-> o, kind |-> "return", value |-> v]
Raised(o) == [op |-> o, kind |-> "raise", value |-> <<>>]

\* the clock readings and the dates the callers pass (hours)
Nows == {770}
StartDates == {None, Some(24)}
EndDates == {None, Some(20)}
HoursPerMonth == 720    \* the model's calendar: every month has 30 days

\* end_date.replace(day=1, hour=0, minute=0, second=0, microsecond=0)
MonthStart(t) == t - (t % HoursPerMonth)

add_connector(c) ==
    /\ op = "none"
    /\ agg_out = Idle
    /\ Len(connectors) < MaxConnectors
    /\ connectors' = Append(connectors, c)
    /\ prev' = None
    /\ UNCHANGED <<gen, op, pc, idx, instances, usage_records, window, status, agg_out>>
    /\ UNCHANGED otherThanAgg

add_connectors(cs) ==
    /\ op = "none"
    /\ agg_out = Idle
    /\ Len(connectors) + Len(cs) <= MaxConnectors
    /\ connectors' = connectors \o cs
    /\ prev' = None
    /\ UNCHANGED <<gen, op, pc, idx, instances, usage_records, window, status, agg_out>>
    /\ UNCHANGED otherThanAgg

\* the providers' data changes between two calls of the aggregator
ProviderDataChanges ==
    /\ op = "none"
    /\ agg_out = Idle
    /\ gen' = 1 - gen
    /\ UNCHANGED <<connectors, op, pc, idx, instances, usage_records, window, status,
                   agg_out, prev>>
    /\ UNCHANGED otherThanAgg

connect_all_call ==
    /\ op = "none"
    /\ agg_out = Idle
    /\ op' = "connect_all"
    /\ pc' = "connect"
    /\ idx' = 1
    /\ status' = <<>>
    /\ UNCHANGED <<connectors, gen, instances, usage_records, window, prev>>
    /\ UNCHANGED agg_out
    /\ UNCHANGED otherThanAgg

connect_all_step ==
    /\ op = "connect_all"
    /\ idx <= Len(connectors)
    /\ connect(connectors[idx]).kind = "ok"
    /\ status' = (provider_name(connectors[idx]) :> connect(connectors[idx]).value) @@ status
    /\ idx' = idx + 1
    /\ UNCHANGED <<connectors, gen, op, pc, instances, usage_records, window, agg_out, prev>>
    /\ UNCHANGED otherThanAgg

\* connect() raised: nothing in connect_all catches it
connect_all_raise ==
    /\ op = "connect_all"
    /\ idx <= Len(connectors)
    /\ connect(connectors[idx]).kind = "raise"
    /\ agg_out' = Raised("connect_all")
    /\ op' = "none"
    /\ pc' = "idle"
    /\ UNCHANGED <<connectors, gen, idx, instances, usage_records, window, status, prev>>
    /\ UNCHANGED otherThanAgg

connect_all_return ==
    /\ op = "connect_all"
    /\ idx > Len(connectors)
    /\ agg_out' = Returned("connect_all", status)
    /\ op' = "none"
    /\ pc' = "idle"
    /\ UNCHANGED <<connectors, gen, idx, instances, usage_records, window, status, prev>>
    /\ UNCHANGED otherThanAgg

\* try: acc.extend(<the connector's call>)  except Exception: print(...)
extend_or_restart(acc, r) == IF r.kind = "ok" THEN acc \o r.value ELSE <<>>
extend_or_skip(acc, r) == IF r.kind = "ok" THEN acc \o r.value ELSE acc

get_all_instances_call ==
    /\ op = "none"
    /\ agg_out = Idle
    /\ op' = "get_all_instances"
    /\ pc' = "instances"
    /\ idx' = 1
    /\ instances' = <<>>
    /\ UNCHANGED <<connectors, gen, usage_records, window, status, prev>>
    /\ UNCHANGED agg_out
    /\ UNCHANGED otherThanAgg

\* one iteration of the loop of get_all_instances; a call that never returns
\* leaves the loop where it is
get_all_instances_step ==
    /\ pc = "instances"
    /\ idx <= Len(connectors)
    /\ list_gpu_instances(connectors[idx], gen).kind # "hang"
    /\ instances' = extend_or_skip(instances, list_gpu_instances(connectors[idx], gen))
    /\ idx' = idx + 1
    /\ UNCHANGED <<connectors, gen, op, pc, usage_records, window, status, agg_out, prev>>
    /\ UNCHANGED otherThanAgg

get_all_instances_return ==
    /\ op = "get_all_instances"
    /\ pc = "instances"
    /\ idx > Len(connectors)
    /\ agg_out' = Returned("get_all_instances", instances)
    /\ op' = "none"
    /\ pc' = "idle"
    /\ UNCHANGED <<connectors, gen, idx, instances, usage_records, window, status, prev>>
    /\ UNCHANGED otherThanAgg

get_all_usage_call(start, end) ==
    /\ op = "none"
    /\ agg_out = Idle
    /\ op' = "get_all_usage"
    /\ pc' = "usage"
    /\ idx' = 1
    /\ usage_records' = <<>>
    /\ window' = <<start, end>>
    /\ UNCHANGED <<connectors, gen, instances, status, prev>>
    /\ UNCHANGED agg_out
    /\ UNCHANGED otherThanAgg

get_all_usage_step ==
    /\ pc = "usage"
    /\ idx <= Len(connectors)
    /\ get_usage(connectors[idx], gen).kind # "hang"
    /\ usage_records' = extend_or_skip(usage_records, get_usage(connectors[idx], gen))
    /\ idx' = idx + 1
    /\ UNCHANGED <<connectors, gen, op, pc, instances, window, status, agg_out, prev>>
    /\ UNCHANGED otherThanAgg

get_all_usage_return ==
    /\ op = "get_all_usage"
    /\ pc = "usage"
    /\ idx > Len(connectors)
    /\ agg_out' = Returned("get_all_usage", usage_records)
    /\ op' = "none"
    /\ pc' = "idle"
    /\ UNCHANGED <<connectors, gen, idx, instances, usage_records, window, status, prev>>
    /\ UNCHANGED otherThanAgg

\* get_summary(start_date, end_date) up to its call of get_all_instances
get_summary_call(start_date, end_date, now) ==
    /\ op = "none"
    /\ agg_out = Idle
    /\ LET end == IF end_date = None THEN now ELSE end_date[1]
           start == IF start_date = None THEN MonthStart(end) ELSE start_date[1]
       IN window' = <<start, end>>
    /\ op' = "get_summary"
    /\ pc' = "instances"
    /\ idx' = 1
    /\ instances' = <<>>
    /\ UNCHANGED <<connectors, gen, usage_records, status, prev>>
    /\ UNCHANGED agg_out
    /\ UNCHANGED otherThanAgg

\* get_all_instances has returned to get_summary, which calls get_all_usage
get_summary_usage ==
    /\ op = "get_summary"
    /\ pc = "instances"
    /\ idx > Len(connectors)
    /\ pc' = "usage"
    /\ idx' = 1
    /\ usage_records' = <<>>
    /\ UNCHANGED <<connectors, gen, op, instances, window, status, agg_out, prev>>
    /\ UNCHANGED otherThanAgg

\* get_all_usage has returned to get_summary: the summary is built and returned
get_summary_return ==
    /\ op = "get_summary"
    /\ pc = "usage"
    /\ idx > Len(connectors)
    /\ LET summary == SpendSummary(instances, usage_records, window[1], window[2])
           same == /\ prev # None
                   /\ prev.window = window
                   /\ prev.instances = instances
                   /\ prev.usage_records = usage_records
       IN /\ agg_out' = Returned("get_summary", summary)
          /\ prev' = [window |-> window, instances |-> instances,
                      usage_records |-> usage_records, summary |-> summary,
                      provider_data |-> provider_data(instances, usage_records),
                      earlier |-> IF same THEN Some(prev.summary) ELSE None]
    /\ op' = "none"
    /\ pc' = "idle"
    /\ UNCHANGED <<connectors, gen, idx, instances, usage_records, window, status>>
    /\ UNCHANGED otherThanAgg

\* the caller has taken the value the last call returned, or handled its exception
agg_take ==
    /\ op = "none"
    /\ agg_out # Idle
    /\ agg_out' = Idle
    /\ UNCHANGED <<connectors, gen, op, pc, idx, instances, usage_records, window, status,
                   prev>>
    /\ UNCHANGED otherThanAgg

InitAgg ==
    /\ connectors = <<>>
    /\ gen = 0
    /\ op = "none"
    /\ pc = "idle"
    /\ idx = 1
    /\ instances = <<>>
    /\ usage_records = <<>>
    /\ window = <<0, 0>>
    /\ status = <<>>
    /\ agg_out = Idle
    /\ prev = None

NextAgg ==
    \/ \E c \in Connectors : add_connector(c)
    \/ \E cs \in [1..2 -> Connectors] : add_connectors(cs)
    \/ ProviderDataChanges
    \/ connect_all_call
    \/ connect_all_step
    \/ connect_all_raise
    \/ connect_all_return
    \/ get_all_instances_call
    \/ get_all_instances_step
    \/ get_all_instances_return
    \/ get_all_usage_call(24, 100)
    \/ get_all_usage_step
    \/ get_all_usage_return
    \/ \E s \in StartDates, e \in EndDates, n \in Nows : get_summary_call(s, e, n)
    \/ get_summary_usage
    \/ get_summary_return
    \/ agg_take

\* ------------------------------------------------------------------------
\* computer/waste/rules.py
\* ------------------------------------------------------------------------
WasteScale == 1000    \* estimated_waste_per_day is held in thousandths

WasteAlert(waste_type, severity, instance, estimated_waste_per_day) ==
    [waste_type |-> waste_type, severity |-> severity, instance |-> instance,
     estimated_waste_per_day |-> estimated_waste_per_day]

\* The rule objects of the model: the four of DEFAULT_RULES, and three a caller
\* builds and passes to add_rule: IdleGPURule(threshold=10.0), a WasteRule whose
\* evaluate is not overridden, and a subclass of WasteRule whose evaluate compares
\* instance.memory_utilization with its threshold without looking for None first.
DEFAULT_RULES == <<"IdleGPURule", "LowUtilizationRule", "SpotOpportunityRule",
                   "OversizedInstanceRule">>
CustomRules == {"IdleGPURule10", "WasteRule", "UnguardedRule"}
RuleObjects == Range(DEFAULT_RULES) \cup CustomRules

waste_type(rule) ==
    CASE rule \in {"IdleGPURule", "IdleGPURule10"} -> "idle_gpu"
      [] rule = "LowUtilizationRule" -> "low_utilization"
      [] rule = "SpotOpportunityRule" -> "spot_opportunity"
      [] rule = "OversizedInstanceRule" -> "oversized_instance"
      [] rule = "UnguardedRule" -> "redundant_instance"
      [] OTHER -> "stopped_with_storage"

\* WasteRule.threshold; the spot discount 0.6 is held in thousandths
threshold(rule) ==
    CASE rule = "IdleGPURule" -> 5
      [] rule = "IdleGPURule10" -> 10
      [] rule = "LowUtilizationRule" -> 30
      [] rule = "SpotOpportunityRule" -> 600
      [] rule = "OversizedInstanceRule" -> 30
      [] rule = "UnguardedRule" -> 50
      [] OTHER -> 0

idle_severity_ge(hourly_cost) == IF hourly_cost >= 5 THEN "high" ELSE "medium"
idle_severity(hourly_cost) == IF hourly_cost > 5 THEN "high" ELSE "medium"

IdleGPURule_evaluate(rule, i) ==
    IF ~is_running(i) THEN None
    ELSE IF i.gpu_utilization = None THEN None
    ELSE IF i.gpu_utilization[1] < threshold(rule)
         THEN Some(WasteAlert(waste_type(rule), idle_severity(i.hourly_cost), i,
                              i.hourly_cost * 24 * WasteScale))
         ELSE None

\* hourly_cost * 24 * (1 - utilization / 100) * 0.5
LowUtilizationRule_evaluate_inclusive(rule, i) ==
    IF ~is_running(i) THEN None
    ELSE IF i.gpu_utilization = None THEN None
    ELSE IF i.gpu_utilization[1] <= threshold(rule)
         THEN Some(WasteAlert(waste_type(rule), "medium", i,
                              (i.hourly_cost * 24 * (100 - i.gpu_utilization[1])
                                  * (WasteScale \div 100)) \div 2))
         ELSE None
LowUtilizationRule_evaluate(rule, i) ==
    IF ~is_running(i) THEN None
    ELSE IF i.gpu_utilization = None THEN None
    ELSE IF 5 <= i.gpu_utilization[1] /\ i.gpu_utilization[1] < threshold(rule)
         THEN Some(WasteAlert(waste_type(rule), "medium", i,
                              (i.hourly_cost * 24 * (100 - i.gpu_utilization[1])
                                  * (WasteScale \div 100)) \div 2))
         ELSE None

\* a variant whose cost cap also passes over an instance at exactly 50 per hour
SpotOpportunityRule_evaluate_below_50(rule, i) ==
    IF ~is_running(i) THEN None
    ELSE IF i.pricing_type # "on-demand" THEN None
    ELSE IF i.hourly_cost >= 50 THEN None
    ELSE Some(WasteAlert(waste_type(rule), "low", i,
                         i.hourly_cost * 24 * threshold(rule)))

\* hourly_cost * 24 * spot_discount
SpotOpportunityRule_evaluate(rule, i) ==
    IF ~is_running(i) THEN None
    ELSE IF i.pricing_type # "on-demand" THEN None
    ELSE IF i.hourly_cost > 50 THEN None
    ELSE Some(WasteAlert(waste_type(rule), "low", i,
                         i.hourly_cost * 24 * threshold(rule)))

downgrade_suggestions == {"a100-80gb", "h100-80gb", "rtx-4090"}

\* a variant that does not look for a downgrade target
OversizedInstanceRule_evaluate_any_type(rule, i) ==
    IF ~is_running(i) THEN None
    ELSE IF i.memory_utilization = None THEN None
    ELSE IF i.memory_utilization[1] < threshold(rule)
         THEN Some(WasteAlert(waste_type(rule), "medium", i,
                              i.hourly_cost * 24 * 3 * (WasteScale \div 10)))
         ELSE None

\* hourly_cost * 24 * 0.3
OversizedInstanceRule_evaluate(rule, i) ==
    IF ~is_running(i) THEN None
    ELSE IF i.memory_utilization = None THEN None
    ELSE IF i.memory_utilization[1] < threshold(rule) /\ i.gpu_type \in downgrade_suggestions
         THEN Some(WasteAlert(waste_type(rule), "medium", i,
                              i.hourly_cost * 24 * 3 * (WasteScale \div 10)))
         ELSE None

\* the caller's rule: `if instance.memory_utilization < self.threshold: return WasteAlert(...)`;
\* comparing None with a number raises TypeError
UnguardedRule_evaluate(rule, i) ==
    IF i.memory_utilization = None THEN Raises
    ELSE IF i.memory_utilization[1] < threshold(rule)
         THEN Ok(Some(WasteAlert(waste_type(rule), "low", i, i.hourly_cost * 24 * WasteScale)))
         ELSE Ok(None)

\* rule.evaluate(instance): the alert or None, or an exception (WasteRule.evaluate
\* raises NotImplementedError)
evaluate(rule, i) ==
    CASE rule \in {"IdleGPURule", "IdleGPURule10"} -> Ok(IdleGPURule_evaluate(rule, i))
      [] rule = "LowUtilizationRule" -> Ok(LowUtilizationRule_evaluate(rule, i))
      [] rule = "SpotOpportunityRule" -> Ok(SpotOpportunityRule_evaluate(rule, i))
      [] rule = "OversizedInstanceRule" -> Ok(OversizedInstanceRule_evaluate(rule, i))
      [] rule = "UnguardedRule" -> UnguardedRule_evaluate(rule, i)
      [] OTHER -> Raises

\* ------------------------------------------------------------------------
\* computer/waste/detector.py
\* ------------------------------------------------------------------------
\* one iteration of the loop of analyze_instance: a disabled rule is passed over,
\* an exception of evaluate is caught and the loop goes on
analyze_rule_abort(alerts, rule, en, i) ==
    IF ~en[rule] THEN alerts
    ELSE IF evaluate(rule, i).kind # "ok" THEN <<>>
    ELSE IF evaluate(rule, i).value # None THEN Append(alerts, evaluate(rule, i).value[1])
    ELSE alerts
analyze_rule(alerts, rule, en, i) ==
    IF ~en[rule] THEN alerts
    ELSE IF evaluate(rule, i).kind = "ok" /\ evaluate(rule, i).value # None
         THEN Append(alerts, evaluate(rule, i).value[1])
         ELSE alerts

analyze_instance(rs, en, i) ==
    LET f[k \in 0..Len(rs)] == IF k = 0 THEN <<>> ELSE analyze_rule(f[k - 1], rs[k], en, i)
    IN f[Len(rs)]

severity_order(sev) ==
    CASE sev = "critical" -> 0
      [] sev = "high" -> 1
      [] sev = "medium" -> 2
      [] OTHER -> 3

\* the sort key (severity_order[a.severity], -a.estimated_waste_per_day), compared
\* as Python compares tuples
key_less_ascending_waste(a, b) ==
    \/ severity_order(a.severity) < severity_order(b.severity)
    \/ /\ severity_order(a.severity) = severity_order(b.severity)
       /\ a.estimated_waste_per_day < b.estimated_waste_per_day
key_less(a, b) ==
    \/ severity_order(a.severity) < severity_order(b.severity)
    \/ /\ severity_order(a.severity) = severity_order(b.severity)
       /\ -a.estimated_waste_per_day < -b.estimated_waste_per_day

\* list.sort is stable: an element goes after every element that is not greater
InsertSorted(sorted, x) ==
    LET before == {k \in 0..Len(sorted) : \A j \in 1..k : ~key_less(x, sorted[j])}
        at == CHOOSE k \in before : \A m \in before : m <= k
    IN SubSeq(sorted, 1, at) \o <<x>> \o SubSeq(sorted, at + 1, Len(sorted))

sort_alerts(alerts) == FoldSeq(InsertSorted, <<>>, alerts)

\* the instances the detector's aggregator returns when analyze is given none
aggregator_instances(conns, g) ==
    FoldSeq(LAMBDA acc, c : extend_or_skip(acc, list_gpu_instances(c, g)), <<>>, conns)

all_alerts(rs, en, insts) ==
    Flatten(Map(insts, LAMBDA i : analyze_instance(rs, en, i)))

WasteReport(rs, en, insts) ==
    [total_instances_analyzed |-> Len(insts),
     alerts |-> sort_alerts(all_alerts(rs, en, insts))]

NoCall == [op |-> "none", instances |-> <<>>, value |-> <<>>]

\* the rule types the callers name and the instances they pass
RuleTypes == {"idle_gpu", "stopped_with_storage"}

WasteInstances ==
    { GPUInstance("w-1", "aws", "a100-80gb", 8, "us-east-1", "on-demand", 6,
                  "running", Some(3), Some(10)),
      GPUInstance("w-2", "gcp", "t4", 1, "us-central1", "spot", 3,
                  "running", Some(3), None),
      GPUInstance("w-3", "runpod", "rtx-4090", 1, "eu", "on-demand", 51,
                  "Active", Some(20), Some(20)),
      GPUInstance("w-4", "aws", "a100-80gb", 1, "us-east-1", "on-demand", 3,
                  "stopped", Some(0), Some(0)),
      GPUInstance("w-5", "azure", "t4", 1, "eastus", "on-demand", 5,
                  "running", Some(85), Some(50)) }

\* the instances of the lists given to analyze
BatchInstances == {w \in WasteInstances : w.instance_id \in {"w-1", "w-2", "w-3"}}

add_rule(rule) ==
    /\ waste_out = NoCall
    /\ Len(rules) < MaxRules
    /\ rules' = Append(rules, rule)
    /\ UNCHANGED waste_out
    /\ UNCHANGED enabled
    /\ UNCHANGED otherThanWaste

remove_rule(t) ==
    /\ waste_out = NoCall
    /\ rules' = SelectSeq(rules, LAMBDA r : waste_type(r) # t)
    /\ UNCHANGED waste_out
    /\ UNCHANGED enabled
    /\ UNCHANGED otherThanWaste

set_enabled_in_list(t, b) ==
    [r \in RuleObjects |-> IF r \in Range(rules) /\ waste_type(r) = t THEN b ELSE enabled[r]]

enable_rule(t) ==
    /\ waste_out = NoCall
    /\ enabled' = set_enabled_in_list(t, TRUE)
    /\ UNCHANGED waste_out
    /\ UNCHANGED rules
    /\ UNCHANGED otherThanWaste

disable_rule(t) ==
    /\ waste_out = NoCall
    /\ enabled' = set_enabled_in_list(t, FALSE)
    /\ UNCHANGED waste_out
    /\ UNCHANGED rules
    /\ UNCHANGED otherThanWaste

analyze_instance_call(i) ==
    /\ waste_out = NoCall
    /\ waste_out' = [op |-> "analyze_instance", instances |-> <<i>>,
                     value |-> analyze_instance(rules, enabled, i)]
    /\ UNCHANGED <<rules, enabled>>
    /\ UNCHANGED otherThanWaste

\* analyze(instances): given None, the instances come from the detector's aggregator
analyze_call_pruning(given) ==
    /\ waste_out = NoCall
    /\ LET insts == IF given = None THEN aggregator_instances(connectors, gen)
                    ELSE given[1]
       IN waste_out' = [op |-> "analyze", instances |-> insts,
                        value |-> WasteReport(rules, enabled, insts)]
    /\ rules' = SelectSeq(rules, LAMBDA r : enabled[r])
    /\ UNCHANGED enabled
    /\ UNCHANGED otherThanWaste
analyze_call(given) ==
    /\ waste_out = NoCall
    /\ LET insts == IF given = None THEN aggregator_instances(connectors, gen)
                    ELSE given[1]
       IN waste_out' = [op |-> "analyze", instances |-> insts,
                        value |-> WasteReport(rules, enabled, insts)]
    /\ UNCHANGED <<rules, enabled>>
    /\ UNCHANGED otherThanWaste

\* the caller has taken the value the last call returned
take_result ==
    /\ waste_out # NoCall
    /\ waste_out' = NoCall
    /\ UNCHANGED <<rules, enabled>>
    /\ UNCHANGED otherThanWaste

NewWaste ==
    /\ rules = DEFAULT_RULES
    /\ enabled = [r \in RuleObjects |-> TRUE]
    /\ waste_out = NoCall

NextWaste ==
    \/ \E r \in CustomRules : add_rule(r)
    \/ \E t \in RuleTypes : remove_rule(t)
    \/ \E t \in RuleTypes : enable_rule(t)
    \/ \E t \in RuleTypes : disable_rule(t)
    \/ \E i \in WasteInstances : analyze_instance_call(i)
    \/ \E b \in SeqsUpTo(BatchInstances, MaxBatch) : analyze_call(Some(b))
    \/ analyze_call(None)
    \/ take_result

\* ------------------------------------------------------------------------
\* computer/forecast/predictor.py
\* ------------------------------------------------------------------------
\* Exact fractions <<n, d>>, d > 0, in lowest terms: the quotients the predictor
\* computes with `/`
RECURSIVE Gcd(_, _)
Gcd(a, b) == IF b = 0 THEN a ELSE Gcd(b, a % b)

Frac(n, d) ==
    LET g == Gcd(IF n < 0 THEN -n ELSE n, d)
    IN <<n \div g, d \div g>>

Lcm(a, b) == (a \div Gcd(a, b)) * b

FracAdd(a, b) ==
    LET l == Lcm(a[2], b[2])
    IN Frac(a[1] * (l \div a[2]) + b[1] * (l \div b[2]), l)

FracSub(a, b) == FracAdd(a, <<-b[1], b[2]>>)

\* the factors are reduced crosswise first, so that no product is larger than the result
FracMul(a, b) ==
    LET x == Frac(a[1], b[2])
        y == Frac(b[1], a[2])
    IN Frac(x[1] * y[1], x[2] * y[2])

FracLeq(a, b) ==
    LET l == Lcm(a[2], b[2])
    IN a[1] * (l \div a[2]) <= b[1] * (l \div b[2])

RECURSIVE FracSum(_)
FracSum(s) == IF s = <<>> THEN <<0, 1>> ELSE FracAdd(Head(s), FracSum(Tail(s)))

\* max(0, x)
max0_off(x) == x
max0(x) == IF x[1] < 0 THEN <<0, 1>> ELSE x

\* the whole part of the square root of n (np.std and np.sqrt return the root
\* itself; the model keeps the whole part of the root of the scaled radicand)
RECURSIVE IsqrtBetween(_, _, _)
IsqrtBetween(n, lo, hi) ==
    IF lo = hi THEN lo
    ELSE LET mid == (lo + hi + 1) \div 2
         IN IF mid * mid <= n THEN IsqrtBetween(n, mid, hi) ELSE IsqrtBetween(n, lo, mid - 1)

Isqrt(n) == IsqrtBetween(n, 0, IF n > 46340 THEN 46340 ELSE n)

\* what self.aggregator.get_all_usage(start_date, end_date) returns
aggregator_usage(conns, g) ==
    FoldSeq(LAMBDA acc, c : extend_or_skip(acc, get_usage(c, g)), <<>>, conns)

\* record.start_time.replace(hour=0, minute=0, second=0, microsecond=0)
DayOf(t) == t - (t % 24)

\* _aggregate_daily_costs: a dict day -> cost, in insertion order
DailyAddRecord(data, r) ==
    LET d == Touch(data, DayOf(r.start_time), [key |-> DayOf(r.start_time), cost |-> 0])
        i == IndexOfKey(d, DayOf(r.start_time))
    IN [d EXCEPT ![i].cost = @ + r.cost]

aggregate_daily_costs(records) == FoldSeq(DailyAddRecord, <<>>, records)

\* _aggregate_by_provider and _aggregate_by_gpu_type
CostAddProvider(data, r) ==
    LET d == Touch(data, r.provider, [key |-> r.provider, cost |-> 0])
        i == IndexOfKey(d, r.provider)
    IN [d EXCEPT ![i].cost = @ + r.cost]

CostAddGpuType(data, r) ==
    LET d == Touch(data, r.gpu_type, [key |-> r.gpu_type, cost |-> 0])
        i == IndexOfKey(d, r.gpu_type)
    IN [d EXCEPT ![i].cost = @ + r.cost]

aggregate_by_provider(records) == FoldSeq(CostAddProvider, <<>>, records)
aggregate_by_gpu_type(records) == FoldSeq(CostAddGpuType, <<>>, records)

\* days = sorted(daily_costs.keys()); costs = [daily_costs[d] for d in days]
costs_in_day_order(daily) ==
    LET rank(k) == Cardinality({j \in 1..Len(daily) : daily[j].key < k}) + 1
    IN [n \in 1..Len(daily) |->
           daily[CHOOSE i \in 1..Len(daily) : rank(daily[i].key) = n].cost]

\* np.polyfit(x, y, 1) with x = 0, 1, ..., len(y) - 1: the least-squares line
polyfit(y) ==
    LET n == Len(y)
        Sx == SumSeq([k \in 1..n |-> k - 1])
        Sxx == SumSeq([k \in 1..n |-> (k - 1) * (k - 1)])
        Sy == SumSeq(y)
        Sxy == SumSeq([k \in 1..n |-> (k - 1) * y[k]])
        D == n * Sxx - Sx * Sx
    IN [slope |-> Frac(n * Sxy - Sx * Sy, D), intercept |-> Frac(Sy * Sxx - Sx * Sxy, D)]

\* 1.96 * np.std(y) * np.sqrt(days_in_month), days_in_month = 30:
\* np.std(y) = sqrt(n * sum(y^2) - sum(y)^2) / n
confidence_margin(y) ==
    LET n == Len(y)
        V == n * SumSeq([k \in 1..n |-> y[k] * y[k]]) - SumSeq(y) * SumSeq(y)
    IN Frac(196 * Isqrt(30 * V), 100 * n)

\* now.replace(month=now.month + 1, day=1): the first of next month, at now's time of day
NextMonth(now) == MonthStart(now) + HoursPerMonth + (now % 24)

\* target_month.replace(day=28) + timedelta(days=4)
PeriodEnd(target) == MonthStart(target) + 27 * 24 + (target % 24) + 4 * 24

CostForecast(now, target, predicted, low, high, by_provider, by_gpu_type, model_type, points) ==
    [forecast_date |-> now, period_start |-> target, period_end |-> PeriodEnd(target),
     predicted_cost |-> predicted, confidence_low |-> low, confidence_high |-> high,
     by_provider |-> by_provider, by_gpu_type |-> by_gpu_type,
     model_type |-> model_type, data_points_used |-> points]

\* by_provider.get(key, 0) + monthly, for the running instances
MonthlyAdd(data, k, monthly) ==
    LET d == Touch(data, k, [key |-> k, cost |-> <<0, 1>>])
        i == IndexOfKey(d, k)
    IN [d EXCEPT ![i].cost = FracAdd(@, <<monthly, 1>>)]

forecast_from_current_instances(insts, target, now) ==
    LET running == SelectSeq(insts, is_running)
        monthly_cost == SumSeq(Map(running, LAMBDA i : i.hourly_cost)) * 24 * 30
    IN CostForecast(now, target, <<monthly_cost, 1>>,
                    Frac(monthly_cost * 8, 10), Frac(monthly_cost * 12, 10),
                    FoldSeq(LAMBDA d, i : MonthlyAdd(d, i.provider, i.hourly_cost * 24 * 30),
                            <<>>, running),
                    FoldSeq(LAMBDA d, i : MonthlyAdd(d, i.gpu_type, i.hourly_cost * 24 * 30),
                            <<>>, running),
                    "current_instances", Len(running))

\* len(daily_costs) < 3
too_short_for_trend_2(daily) == Len(daily) < 2
too_short_for_trend(daily) == Len(daily) < 3

\* the CostForecast of the first return: the dicts and model_type keep their defaults
forecast_average(daily, target, now) ==
    LET predicted == Frac(SumSeq(Map(daily, LAMBDA d : d.cost)) * 30, Len(daily))
    IN CostForecast(now, target, predicted,
                    FracMul(predicted, <<7, 10>>), FracMul(predicted, <<13, 10>>),
                    <<>>, <<>>, "linear_trend", Len(daily))

\* {k: v * scale_factor ...} with scale_factor = predicted / total_historical
scaled(data, predicted, total_historical) ==
    IF total_historical > 0
    THEN Map(data, LAMBDA d : [key |-> d.key,
                               cost |-> FracMul(<<d.cost, 1>>,
                                                FracMul(predicted, <<1, total_historical>>))])
    ELSE Map(data, LAMBDA d : [key |-> d.key, cost |-> <<d.cost, 1>>])

forecast_trend(records, daily, target, now) ==
    LET costs == costs_in_day_order(daily)
        fit == polyfit(costs)
        days_ahead == Days(now, target)
        projected_daily ==
            max0(FracAdd(fit.intercept,
                         FracMul(fit.slope, <<Len(costs) + days_ahead, 1>>)))
        predicted == FracMul(projected_daily, <<30, 1>>)
        margin == confidence_margin(costs)
        total_historical == SumSeq(Map(records, LAMBDA r : r.cost))
    IN CostForecast(now, target, predicted,
                    max0(FracSub(predicted, margin)), FracAdd(predicted, margin),
                    scaled(aggregate_by_provider(records), predicted, total_historical),
                    scaled(aggregate_by_gpu_type(records), predicted, total_historical),
                    "linear_trend", Len(costs))

forecast_month(records, insts, target_month, now) ==
    LET target == IF target_month = None THEN NextMonth(now) ELSE target_month[1]
    IN IF records = <<>> THEN forecast_from_current_instances(insts, target, now)
       ELSE IF too_short_for_trend(aggregate_daily_costs(records))
            THEN forecast_average(aggregate_daily_costs(records), target, now)
            ELSE forecast_trend(records, aggregate_daily_costs(records), target, now)

NoForecast == [op |-> "none", input |-> <<>>, value |-> <<>>]

\* the months the callers ask a forecast for
TargetMonths == {None, Some(1440), Some(0)}

\* forecast_month(target_month): the calls of the aggregator inside it return when
\* no connector's call hangs
forecast_month_call(target_month, now) ==
    /\ fc_out = NoForecast
    /\ \A k \in 1..Len(connectors) : get_usage(connectors[k], gen).kind # "hang"
    /\ aggregator_usage(connectors, gen) = <<>> =>
          \A k \in 1..Len(connectors) : list_gpu_instances(connectors[k], gen).kind # "hang"
    /\ LET records == aggregator_usage(connectors, gen)
           insts == aggregator_instances(connectors, gen)
       IN fc_out' = [op |-> "forecast_month",
                     input |-> [records |-> records, instances |-> insts,
                                target_month |-> target_month, now |-> now],
                     value |-> forecast_month(records, insts, target_month, now)]
    /\ UNCHANGED otherThanPredictor

\* CostPredictor.GPU_RATES: dollars per GPU hour, by GPU type and provider, in the
\* order of the table
GPU_RATES(gpu_type) ==
    CASE gpu_type = "a100-40gb" ->
           << [key |-> "aws", rate |-> Frac(3277, 800)], [key |-> "gcp", rate |-> Frac(293, 100)],
              [key |-> "azure", rate |-> Frac(367, 100)], [key |-> "vastai", rate |-> Frac(120, 100)],
              [key |-> "runpod", rate |-> Frac(119, 100)], [key |-> "lambda", rate |-> Frac(110, 100)] >>
      [] gpu_type = "a100-80gb" ->
           << [key |-> "aws", rate |-> Frac(4097, 800)], [key |-> "gcp", rate |-> Frac(367, 100)],
              [key |-> "azure", rate |-> Frac(367, 100)], [key |-> "vastai", rate |-> Frac(150, 100)],
              [key |-> "runpod", rate |-> Frac(149, 100)], [key |-> "lambda", rate |-> Frac(129, 100)] >>
      [] gpu_type = "h100-80gb" ->
           << [key |-> "aws", rate |-> Frac(9832, 800)], [key |-> "gcp", rate |-> Frac(1080, 100)],
              [key |-> "azure", rate |-> Frac(9832, 800)], [key |-> "vastai", rate |-> Frac(250, 100)],
              [key |-> "runpod", rate |-> Frac(239, 100)], [key |-> "lambda", rate |-> Frac(199, 100)] >>
      [] gpu_type = "rtx-4090" ->
           << [key |-> "vastai", rate |-> Frac(45, 100)], [key |-> "runpod", rate |-> Frac(44, 100)] >>
      [] gpu_type = "t4" ->
           << [key |-> "aws", rate |-> Frac(526, 1000)], [key |-> "gcp", rate |-> Frac(35, 100)],
              [key |-> "azure", rate |-> Frac(526, 1000)] >>
      [] OTHER -> <<>>

\* flops_per_gpu, in units of 10^11 FLOPS
flops_per_gpu(gpu_type) ==
    CASE gpu_type \in {"a100-40gb", "a100-80gb"} -> 3120
      [] gpu_type \in {"h100-80gb", "h100-sxm"} -> 19790
      [] gpu_type = "rtx-4090" -> 826
      [] OTHER -> 3120

\* gpu_hours = 6 * params * 1e9 * tokens / (flops_per_gpu * gpu_count * 0.4) / 3600,
\* params in billions and tokens in billions: 6e18 / (0.4 * 3600 * 1e11) = 125000 / 3
gpu_hours(model_size_params, gpu_type, gpu_count, training_tokens) ==
    FracMul(Frac(125000, 3),
            FracMul(<<model_size_params * training_tokens, 1>>,
                    <<1, flops_per_gpu(gpu_type) * gpu_count>>))

\* min(provider_costs.items(), key=lambda x: x[1]): the first entry of least cost
cheapest_first(provider_costs) == provider_costs[1]
cheapest(provider_costs) ==
    provider_costs[CHOOSE i \in 1..Len(provider_costs) :
                      /\ \A j \in 1..Len(provider_costs) :
                             FracLeq(provider_costs[i].cost, provider_costs[j].cost)
                      /\ \A j \in 1..(i - 1) : provider_costs[j].cost # provider_costs[i].cost]

\* max(provider_costs.values())
dearest(provider_costs) ==
    provider_costs[CHOOSE i \in 1..Len(provider_costs) :
                      \A j \in 1..Len(provider_costs) :
                          FracLeq(provider_costs[j].cost, provider_costs[i].cost)]

estimate_training_cost(model_size_params, gpu_type, gpu_count, training_tokens) ==
    LET hours == gpu_hours(model_size_params, gpu_type, gpu_count, training_tokens)
        provider_costs ==
            Map(GPU_RATES(gpu_type),
                LAMBDA e : [key |-> e.key,
                            cost |-> FracMul(e.rate, FracMul(<<gpu_count, 1>>, hours))])
        known == provider_costs # <<>>
    IN [model_size_params |-> model_size_params, gpu_type |-> gpu_type, gpu_count |-> gpu_count,
        estimated_hours |-> hours,
        estimated_cost |-> IF known
                           THEN FracMul(FracSum(Map(provider_costs, LAMBDA e : e.cost)),
                                        <<1, Len(provider_costs)>>)
                           ELSE <<0, 1>>,
        cost_range_low |-> IF known THEN cheapest(provider_costs).cost ELSE <<0, 1>>,
        cost_range_high |-> IF known THEN dearest(provider_costs).cost ELSE <<0, 1>>,
        provider_costs |-> provider_costs,
        cheapest_provider |-> IF known THEN cheapest(provider_costs).key ELSE "unknown",
        cheapest_cost |-> IF known THEN cheapest(provider_costs).cost ELSE <<0, 1>>]

\* the training runs the callers ask an estimate for
ModelSizes == {1, 7}
TrainingGpuTypes == {"a100-40gb", "a100-80gb", "h100-80gb", "rtx-4090", "t4", "h100-sxm", "l4"}
GpuCounts == {1, 8}
TrainingTokens == {1, 100}

estimate_training_cost_call(model_size_params, gpu_type, gpu_count, training_tokens) ==
    /\ fc_out = NoForecast
    /\ fc_out' = [op |-> "estimate_training_cost",
                  input |-> [model_size_params |-> model_size_params, gpu_type |-> gpu_type,
                             gpu_count |-> gpu_count, training_tokens |-> training_tokens],
                  value |-> estimate_training_cost(model_size_params, gpu_type, gpu_count,
                                                   training_tokens)]
    /\ UNCHANGED otherThanPredictor

\* the caller has taken the value the last call returned
fc_take ==
    /\ fc_out # NoForecast
    /\ fc_out' = NoForecast
    /\ UNCHANGED otherThanPredictor

NewPredictor == fc_out = NoForecast

NextPredictor ==
    \/ fc_out = NoForecast /\ ProviderDataChanges
    \/ \E t \in TargetMonths, n \in Nows : forecast_month_call(t, n)
    \/ \E m \in ModelSizes, g \in TrainingGpuTypes, c \in GpuCounts, t \in TrainingTokens :
          estimate_training_cost_call(m, g, c, t)
    \/ fc_take

\* ------------------------------------------------------------------------
\* computer/optimize/recommender.py
\* ------------------------------------------------------------------------
\* the title is held as the parts of its f-string; instance_type, which two of
\* the titles show, is not a field of the model's instances
Recommendation(rec_type, priority, title, monthly_savings, effort, i) ==
    [rec_type |-> rec_type, priority |-> priority, title |-> title,
     monthly_savings |-> monthly_savings,
     effort |-> effort, instance_id |-> i.instance_id, provider |-> i.provider]

\* WasteAlert.monthly_waste (rules.py): estimated_waste_per_day * 30
monthly_waste(alert) == alert.estimated_waste_per_day * 30

\* _from_waste_report: the recommendations of one alert
from_alert(alert) ==
    CASE alert.waste_type = "idle_gpu" ->
           << Recommendation("terminate_idle",
                             IF monthly_waste(alert) > 500 * WasteScale THEN "critical" ELSE "high",
                             <<"Terminate idle", alert.instance.gpu_type>>,
                             monthly_waste(alert), "low", alert.instance) >>
      [] alert.waste_type = "spot_opportunity" ->
           << Recommendation("switch_to_spot", "medium", <<"Switch to spot pricing">>,
                             monthly_waste(alert), "medium", alert.instance) >>
      [] alert.waste_type = "oversized_instance" ->
           << Recommendation("downsize_instance", "medium",
                             <<"Downsize", alert.instance.gpu_type>>,
                             monthly_waste(alert), "medium", alert.instance) >>
      [] OTHER -> <<>>

from_waste_report(alerts) == Flatten(Map(alerts, from_alert))

\* Recommender.SPOT_DISCOUNTS.get(provider, 0.5), in thousandths
SPOT_DISCOUNTS(provider) ==
    CASE provider = "aws" -> 650
      [] provider = "gcp" -> 700
      [] provider = "azure" -> 600
      [] OTHER -> 500

\* a variant with the cost cap of SpotOpportunityRule
spot_opportunity_capped(i) ==
    IF ~is_running(i) THEN <<>>
    ELSE IF i.pricing_type # "on-demand" THEN <<>>
    ELSE IF i.hourly_cost > 50 THEN <<>>
    ELSE IF i.hourly_cost * 24 * 30 * SPOT_DISCOUNTS(i.provider) > 50 * WasteScale
         THEN << Recommendation("switch_to_spot", "medium", <<"Switch", "to spot">>,
                                i.hourly_cost * 24 * 30 * SPOT_DISCOUNTS(i.provider),
                                "medium", i) >>
         ELSE <<>>

\* _spot_opportunities: the recommendations of one instance
spot_opportunity(i) ==
    IF ~is_running(i) THEN <<>>
    ELSE IF i.pricing_type # "on-demand" THEN <<>>
    ELSE IF i.hourly_cost * 24 * 30 * SPOT_DISCOUNTS(i.provider) > 50 * WasteScale
         THEN << Recommendation("switch_to_spot", "medium", <<"Switch", "to spot">>,
                                i.hourly_cost * 24 * 30 * SPOT_DISCOUNTS(i.provider),
                                "medium", i) >>
         ELSE <<>>

\* Recommender.CHEAPER_ALTERNATIVES.get(gpu_type, []): provider and rate, the rate
\* in thousandths
CHEAPER_ALTERNATIVES(gpu_type) ==
    CASE gpu_type = "a100-80gb" ->
           << [provider |-> "lambda", rate |-> 1290], [provider |-> "runpod", rate |-> 1490],
              [provider |-> "vastai", rate |-> 1500] >>
      [] gpu_type = "h100-80gb" ->
           << [provider |-> "lambda", rate |-> 1990], [provider |-> "runpod", rate |-> 2390],
              [provider |-> "vastai", rate |-> 2500] >>
      [] gpu_type = "rtx-4090" ->
           << [provider |-> "runpod", rate |-> 440], [provider |-> "vastai", rate |-> 450] >>
      [] OTHER -> <<>>

\* a variant that goes on to the last alternative that saves more than 100
provider_alternative_last(i) ==
    LET alternatives == CHEAPER_ALTERNATIVES(i.gpu_type)
        savings(a) == i.hourly_cost * 24 * 30 * WasteScale - a.rate * i.gpu_count * 24 * 30
        good == {k \in 1..Len(alternatives) :
                    /\ alternatives[k].provider # i.provider
                    /\ savings(alternatives[k]) > 100 * WasteScale}
        pick == CHOOSE k \in good : \A m \in good : k >= m
    IN IF ~is_running(i) \/ good = {} THEN <<>>
       ELSE << Recommendation("change_provider", "low",
                              <<"Move to", alternatives[pick].provider>>,
                              savings(alternatives[pick]), "high", i) >>

\* _provider_alternatives: the recommendations of one instance, the first
\* alternative on another provider that saves more than 100 (then `break`)
provider_alternative(i) ==
    LET alternatives == CHEAPER_ALTERNATIVES(i.gpu_type)
        savings(a) == i.hourly_cost * 24 * 30 * WasteScale - a.rate * i.gpu_count * 24 * 30
        good == {k \in 1..Len(alternatives) :
                    /\ alternatives[k].provider # i.provider
                    /\ savings(alternatives[k]) > 100 * WasteScale}
        pick == CHOOSE k \in good : \A m \in good : k <= m
    IN IF ~is_running(i) \/ good = {} THEN <<>>
       ELSE << Recommendation("change_provider", "low",
                              <<"Move to", alternatives[pick].provider>>,
                              savings(alternatives[pick]), "high", i) >>

\* any(tag in str(i.tags).lower() for tag in ["dev", "development", "test", "staging"]),
\* for the tag dicts of the model
has_dev_tag(tags) == tags \in {"{'team': 'devops'}", "{'Env': 'Staging'}", "{'env': 'dev'}"}

\* a variant that looks at the tags only
scheduling_opportunity_any_status(i) ==
    IF has_dev_tag(i.tags) /\ i.hourly_cost * 12 * 30 * WasteScale > 50 * WasteScale
    THEN << Recommendation("schedule_shutdown", "medium", <<"Schedule", "shutdown">>,
                           i.hourly_cost * 12 * 30 * WasteScale, "low", i) >>
    ELSE <<>>

\* _scheduling_opportunities: the recommendations of one instance
scheduling_opportunity(i) ==
    IF is_running(i) /\ has_dev_tag(i.tags) /\ i.hourly_cost * 12 * 30 * WasteScale > 50 * WasteScale
    THEN << Recommendation("schedule_shutdown", "medium", <<"Schedule", "shutdown">>,
                           i.hourly_cost * 12 * 30 * WasteScale, "low", i) >>
    ELSE <<>>

priority_order(p) ==
    CASE p = "critical" -> 0
      [] p = "high" -> 1
      [] p = "medium" -> 2
      [] OTHER -> 3

\* the sort key (priority_order[r.priority], -r.monthly_savings)
rec_key_less_ascending(a, b) ==
    \/ priority_order(a.priority) < priority_order(b.priority)
    \/ /\ priority_order(a.priority) = priority_order(b.priority)
       /\ a.monthly_savings < b.monthly_savings
rec_key_less(a, b) ==
    \/ priority_order(a.priority) < priority_order(b.priority)
    \/ /\ priority_order(a.priority) = priority_order(b.priority)
       /\ -a.monthly_savings < -b.monthly_savings

\* a sort that is not stable: an element goes before those with an equal key
InsertRecommendation_before_equals(sorted, x) ==
    LET before == {k \in 0..Len(sorted) : \A j \in 1..k : rec_key_less(sorted[j], x)}
        at == CHOOSE k \in before : \A m \in before : m <= k
    IN SubSeq(sorted, 1, at) \o <<x>> \o SubSeq(sorted, at + 1, Len(sorted))

\* recommendations.sort(key=...): stable
InsertRecommendation(sorted, x) ==
    LET before == {k \in 0..Len(sorted) : \A j \in 1..k : ~rec_key_less(x, sorted[j])}
        at == CHOOSE k \in before : \A m \in before : m <= k
    IN SubSeq(sorted, 1, at) \o <<x>> \o SubSeq(sorted, at + 1, Len(sorted))

\* the loop over the sorted list: a recommendation is kept when its key
\* (instance_id, rec_type) was not seen before
keep_last(recs, k) ==
    \A j \in (k + 1)..Len(recs) :
        <<recs[j].instance_id, recs[j].rec_type>> # <<recs[k].instance_id, recs[k].rec_type>>
keep_unseen(recs, k) ==
    \A j \in 1..(k - 1) :
        <<recs[j].instance_id, recs[j].rec_type>> # <<recs[k].instance_id, recs[k].rec_type>>

unique_recs(recs) ==
    LET f[k \in 0..Len(recs)] ==
            IF k = 0 THEN <<>>
            ELSE IF keep_unseen(recs, k) THEN Append(f[k - 1], recs[k]) ELSE f[k - 1]
    IN f[Len(recs)]

\* generate_recommendations: the lists it builds on the way, and the report's list
generate_recommendations(insts, rs, en) ==
    LET waste_report == WasteReport(rs, en, insts)
        from_waste == from_waste_report(waste_report.alerts)
        candidates == from_waste
                        \o Flatten(Map(insts, spot_opportunity))
                        \o Flatten(Map(insts, provider_alternative))
                        \o Flatten(Map(insts, scheduling_opportunity))
    IN [alerts |-> waste_report.alerts,
        from_waste |-> from_waste,
        candidates |-> candidates,
        recommendations |-> unique_recs(FoldSeq(InsertRecommendation, <<>>, candidates))]

NoReport == [op |-> "none", instances |-> <<>>, value |-> <<>>]

\* generate_recommendations(): get_all_instances inside it returns when no
\* connector's call hangs
generate_recommendations_call ==
    /\ rec_out = NoReport
    /\ \A k \in 1..Len(connectors) : list_gpu_instances(connectors[k], gen).kind # "hang"
    /\ rec_out' = [op |-> "generate_recommendations",
                   instances |-> aggregator_instances(connectors, gen),
                   value |-> generate_recommendations(aggregator_instances(connectors, gen),
                                                      rules, enabled)]
    /\ UNCHANGED otherThanRecommender

\* the caller has taken the report
rec_take ==
    /\ rec_out # NoReport
    /\ rec_out' = NoReport
    /\ UNCHANGED otherThanRecommender

NewRecommender == rec_out = NoReport

\* the recommender's detector is configured between two reports
NextRecommender ==
    \/ rec_out = NoReport /\ ProviderDataChanges
    \/ rec_out = NoReport /\ add_rule("IdleGPURule10")
    \/ \E t \in {"idle_gpu", "spot_opportunity"} : rec_out = NoReport /\ disable_rule(t)
    \/ generate_recommendations_call
    \/ rec_take

\* ------------------------------------------------------------------------
\* One GPUInstance: its derived properties, and the alerts a detector with the
\* default rule set gives it
\* ------------------------------------------------------------------------
Statuses == {"running", "RUNNING", "Active", "stopped", "terminated"}
Utilizations ==
    {None, Some(0), Some(3), Some(4), Some(5), Some(9), Some(10), Some(29), Some(30), Some(85)}
HourlyCosts == {0, 3, 5, 6, 50, 51}
PricingTypes == {"on-demand", "spot", "reserved", "preemptible"}
MemoryUtilizations == {None, Some(10), Some(29), Some(30)}
InstanceDomain ==
    { GPUInstance("x-1", "aws", g, 1, "us-east-1", p, c, st, u, m) :
        g \in {"a100-80gb", "h100-80gb", "rtx-4090", "t4"}, p \in PricingTypes,
        c \in HourlyCosts, st \in Statuses, u \in Utilizations, m \in MemoryUtilizations }

set_status(st) ==
    /\ inst' = [inst EXCEPT !.status = st]
    /\ obs' = None
    /\ UNCHANGED otherThanInst

set_gpu_utilization(u) ==
    /\ inst' = [inst EXCEPT !.gpu_utilization = u]
    /\ obs' = None
    /\ UNCHANGED otherThanInst

\* the instance's properties are read, and a WasteDetector() built with the
\* default rule set analyses it: its list is DEFAULT_RULES.copy(), a new list of
\* the rule objects of the module's list, whose enabled flags are the objects' own
read_properties ==
    /\ obs' = Some([is_running |-> is_running(inst), is_idle |-> is_idle(inst),
                    alerts |-> analyze_instance(DEFAULT_RULES, enabled, inst)])
    /\ UNCHANGED inst
    /\ UNCHANGED otherThanInst

NewInstance ==
    /\ inst = GPUInstance("x-1", "aws", "t4", 1, "us-east-1", "on-demand", 3, "running",
                          None, None)
    /\ obs = None

NextInstance ==
    \/ \E st \in Statuses : set_status(st)
    \/ \E u \in Utilizations : set_gpu_utilization(u)
    \/ read_properties

\* ------------------------------------------------------------------------
\* Specifications
\* ------------------------------------------------------------------------
\* the aggregator
Init == InitAgg /\ NewInstance /\ NewWaste /\ NewPredictor /\ NewRecommender
Next == NextAgg
Spec == Init /\ [][Next]_vars

\* the two fan-outs of the aggregator, where a call in progress goes on as long
\* as it can: the program is one thread and nothing pre-empts it
NextFanOut ==
    \/ \E c \in Connectors : add_connector(c)
    \/ ProviderDataChanges
    \/ get_all_instances_call
    \/ get_all_instances_step
    \/ get_all_instances_return
    \/ \E start \in {0, 24}, end \in {20, 100} : get_all_usage_call(start, end)
    \/ get_all_usage_step
    \/ get_all_usage_return
    \/ agg_take
FanOutProgress ==
    \/ get_all_instances_step
    \/ get_all_instances_return
    \/ get_all_usage_step
    \/ get_all_usage_return
FairSpec == Init /\ [][NextFanOut]_vars /\ WF_vars(FanOutProgress)

\* one instance
InitInstance ==
    InitAgg /\ inst \in InstanceDomain /\ obs = None /\ NewWaste /\ NewPredictor /\ NewRecommender
SpecInstance == InitInstance /\ [][NextInstance]_vars

\* the detector, over an aggregator that is empty or has three connectors
InitWaste ==
    /\ InitAgg!2 /\ InitAgg!3 /\ InitAgg!4 /\ InitAgg!5 /\ InitAgg!6 /\ InitAgg!7
    /\ InitAgg!8 /\ InitAgg!9 /\ InitAgg!10 /\ InitAgg!11
    /\ connectors \in {<<>>, <<"aws1", "azure1", "gcp1">>}
    /\ NewInstance
    /\ NewWaste
    /\ NewPredictor
    /\ NewRecommender
SpecWaste == InitWaste /\ [][NextWaste]_vars

\* two detectors: one is configured, another one, built with the default rule
\* set, analyses an instance
InitDetectors ==
    InitAgg /\ inst \in WasteInstances /\ obs = None /\ NewWaste /\ NewPredictor /\ NewRecommender
NextDetectors ==
    \/ add_rule("IdleGPURule10")
    \/ \E t \in {"idle_gpu", "spot_opportunity"} : remove_rule(t)
    \/ \E t \in {"idle_gpu", "spot_opportunity"} : enable_rule(t)
    \/ \E t \in {"idle_gpu", "spot_opportunity"} : disable_rule(t)
    \/ read_properties
SpecDetectors == InitDetectors /\ [][NextDetectors]_vars

\* the predictor, over an aggregator with any connectors registered
InitForecast ==
    /\ InitAgg!2 /\ InitAgg!3 /\ InitAgg!4 /\ InitAgg!5 /\ InitAgg!6 /\ InitAgg!7
    /\ InitAgg!8 /\ InitAgg!9 /\ InitAgg!10 /\ InitAgg!11
    /\ connectors \in SeqsUpTo(Connectors, MaxConnectors)
    /\ NewInstance
    /\ NewWaste
    /\ NewPredictor
    /\ NewRecommender
SpecForecast == InitForecast /\ [][NextPredictor]_vars

\* the recommender, over an aggregator with any connectors registered and a
\* detector with the default rules
SpecRecommend == InitForecast /\ [][NextRecommender]_vars

\* the four analyses, one call at a time, with the aggregator and the detector
\* configured between the calls
AllTaken ==
    /\ op = "none"
    /\ agg_out = Idle
    /\ waste_out = NoCall
    /\ fc_out = NoForecast
    /\ rec_out = NoReport

NextAnalysis ==
    \/ \E c \in Connectors : AllTaken /\ add_connector(c)
    \/ AllTaken /\ ProviderDataChanges
    \/ AllTaken /\ add_rule("IdleGPURule10")
    \/ \E t \in {"idle_gpu", "spot_opportunity"} : AllTaken /\ disable_rule(t)
    \/ \E n \in Nows : AllTaken /\ get_summary_call(None, None, n)
    \/ get_all_instances_step
    \/ get_summary_usage
    \/ get_all_usage_step
    \/ get_summary_return
    \/ agg_take
    \/ AllTaken /\ analyze_call(None)
    \/ take_result
    \/ \E n \in Nows : AllTaken /\ forecast_month_call(None, n)
    \/ fc_take
    \/ AllTaken /\ generate_recommendations_call
    \/ rec_take
SpecAnalysis == Init /\ [][NextAnalysis]_vars

\* ========================================================================
\* The claims
\* ========================================================================

\* what the connectors that did not raise returned, whole and in registration order
ResultsInOrder(call(_)) ==
    Flatten([k \in 1..Len(connectors) |->
                IF call(connectors[k]).kind = "ok" THEN call(connectors[k]).value ELSE <<>>])

SomeConnectorRaises(call(_)) ==
    \E k \in 1..Len(connectors) : call(connectors[k]).kind = "raise"

\* C1: get_all_instances and get_all_usage do not raise when connectors raise, and
\* return exactly the concatenation, in registration order, of the complete
\* results of the connectors that did not raise.
C1_PartialFailureIsolation ==
    /\ agg_out.op = "get_all_instances" =>
          /\ agg_out.kind = "return"
          /\ agg_out.value = ResultsInOrder(LAMBDA c : list_gpu_instances(c, gen))
    /\ agg_out.op = "get_all_usage" =>
          /\ agg_out.kind = "return"
          /\ agg_out.value = ResultsInOrder(LAMBDA c : get_usage(c, gen))

\* C1's case: a fan-out has returned results although a connector before the
\* last registered one raised
C1_Witness ==
    /\ agg_out.op = "get_all_instances"
    /\ Len(connectors) >= 2
    /\ list_gpu_instances(connectors[1], gen).kind = "raise"
    /\ agg_out.value # <<>>

\* C2: connect_all returns also when a connector's connect() raises, with an entry
\* for every registered provider.
C2_ConnectAllNeverAborts ==
    agg_out.op = "connect_all" =>
        /\ agg_out.kind = "return"
        /\ DOMAIN agg_out.value = {provider_name(connectors[k]) : k \in 1..Len(connectors)}

\* C3: get_all_instances and get_all_usage, once called, eventually return, also
\* when the call of one connector never returns (get_summary calls both and
\* returns only after them).
C3_HangDoesNotBlock ==
    (op \in {"get_all_instances", "get_all_usage"})
        ~> (op = "none" /\ agg_out.kind = "return")

\* C4: in every summary the total_cost values of the by_provider entries sum to
\* the summary's total_cost.
C4_ProviderCostsSumToTotal ==
    agg_out.op = "get_summary" =>
        SumSeq(Map(agg_out.value.by_provider, LAMBDA b : b.total_cost))
            = agg_out.value.total_cost

\* C4's case: a summary over records of several providers, one provider with
\* several records
C4_Witness ==
    /\ agg_out.op = "get_summary"
    /\ Len(agg_out.value.by_provider) >= 2
    /\ \E b \in Range(agg_out.value.by_provider) :
          /\ b.total_cost > 0
          /\ Cardinality({k \in 1..Len(usage_records) :
                             usage_records[k].provider = b.provider}) >= 2

\* C5: with no connector registered, get_summary returns zero totals and counts
\* and empty breakdowns, and get_all_instances returns the empty list.
C5_EmptyAggregator ==
    connectors = <<>> =>
        /\ agg_out.op = "get_summary" =>
              /\ agg_out.kind = "return"
              /\ agg_out.value.total_cost = 0
              /\ agg_out.value.total_instances = 0
              /\ agg_out.value.running_instances = 0
              /\ agg_out.value.idle_instances = 0
              /\ agg_out.value.by_provider = <<>>
              /\ agg_out.value.by_gpu_type = <<>>
              /\ agg_out.value.by_region = <<>>
              /\ agg_out.value.by_pricing = <<>>
        /\ agg_out.op = "get_all_instances" =>
              agg_out.kind = "return" /\ agg_out.value = <<>>

C5_Witness == connectors = <<>> /\ agg_out.op = "get_summary"

RunningSpellings == {"running", "Running", "RUNNING", "active", "Active", "ACTIVE"}

C7_RunningAndIdle ==
    obs # None =>
        /\ obs[1].is_running <=> inst.status \in RunningSpellings
        /\ obs[1].is_idle <=>
              /\ inst.status \in RunningSpellings
              /\ inst.gpu_utilization # None
              /\ inst.gpu_utilization[1] < 10

\* C7's case: a running instance, its status not in lower case, with unknown
\* utilization has been read as running and not idle
C7_Witness ==
    /\ obs # None
    /\ inst.status = "RUNNING"
    /\ inst.gpu_utilization = None
    /\ obs[1].is_running
    /\ ~obs[1].is_idle

\* C8: the default rules give an instance exactly one idle_gpu alert iff it is
\* running with known utilization < 5, with waste per day hourly_cost * 24 and
\* severity high if hourly_cost > 5, otherwise medium; otherwise no idle_gpu alert.
IdleAlerts(alerts) == SelectSeq(alerts, LAMBDA a : a.waste_type = "idle_gpu")

C8_IdleGpuRule ==
    obs # None =>
        LET idle == IdleAlerts(obs[1].alerts)
            flagged == /\ inst.status \in RunningSpellings
                       /\ inst.gpu_utilization # None
                       /\ inst.gpu_utilization[1] < 5
        IN IF flagged
           THEN /\ Len(idle) = 1
                /\ idle[1].estimated_waste_per_day = inst.hourly_cost * 24 * WasteScale
                /\ idle[1].severity = (IF inst.hourly_cost > 5 THEN "high" ELSE "medium")
                /\ idle[1].instance = inst
           ELSE idle = <<>>

\* C8's case: an idle instance that costs exactly 5 an hour got its alert
C8_Witness ==
    /\ obs # None
    /\ inst.hourly_cost = 5
    /\ Len(IdleAlerts(obs[1].alerts)) = 1
    /\ IdleAlerts(obs[1].alerts)[1].severity = "medium"

\* C9: after any sequence of add_rule, remove_rule, enable_rule and disable_rule,
\* analyze_instance returns at most one alert per waste_type.
C9_OneAlertPerType ==
    waste_out.op = "analyze_instance" =>
        \A j, k \in 1..Len(waste_out.value) :
            j # k => waste_out.value[j].waste_type # waste_out.value[k].waste_type

\* C10: the alerts of a report are ordered by severity rank critical < high <
\* medium < low and, within a severity, by waste per day descending; they are
\* exactly the alerts analyze_instance gives for the analysed instances; and
\* total_instances_analyzed is the number of instances.
Occurrences(s, x) == Cardinality({k \in 1..Len(s) : s[k] = x})

SeverityRank(sev) ==
    CASE sev = "critical" -> 0 [] sev = "high" -> 1 [] sev = "medium" -> 2 [] sev = "low" -> 3

ProducedAlerts ==
    Flatten([k \in 1..Len(waste_out.instances) |->
                analyze_instance(rules, enabled, waste_out.instances[k])])

C10_ReportSorted ==
    waste_out.op = "analyze" =>
        LET alerts == waste_out.value.alerts
        IN /\ \A j, k \in 1..Len(alerts) :
                  j < k =>
                     \/ SeverityRank(alerts[j].severity) < SeverityRank(alerts[k].severity)
                     \/ /\ alerts[j].severity = alerts[k].severity
                        /\ alerts[j].estimated_waste_per_day
                              >= alerts[k].estimated_waste_per_day
           /\ Len(alerts) = Len(ProducedAlerts)
           /\ \A a \in Range(alerts) \cup Range(ProducedAlerts) :
                  Occurrences(alerts, a) = Occurrences(ProducedAlerts, a)
           /\ waste_out.value.total_instances_analyzed = Len(waste_out.instances)

\* C10's case: a report over two instances whose alerts were produced in another
\* order than the report's, with two alerts of one severity and different waste
C10_Witness ==
    /\ waste_out.op = "analyze"
    /\ Len(waste_out.instances) = 2
    /\ waste_out.value.alerts # ProducedAlerts
    /\ \E j, k \in 1..Len(waste_out.value.alerts) :
          /\ j < k
          /\ waste_out.value.alerts[j].severity = waste_out.value.alerts[k].severity
          /\ waste_out.value.alerts[j].estimated_waste_per_day
                > waste_out.value.alerts[k].estimated_waste_per_day

\* C11: an exception of a rule's evaluate does not leave analyze_instance or
\* analyze; for every analysed instance the result holds exactly the alerts of the
\* rules that are enabled and whose evaluate returned an alert for that instance (a
\* rule that raised for one instance still gives its alerts for the others), and a
\* disabled rule gives none.
AlertsOwed(i) ==
    Flatten([k \in 1..Len(rules) |->
                IF /\ enabled[rules[k]]
                   /\ evaluate(rules[k], i).kind = "ok"
                   /\ evaluate(rules[k], i).value # None
                THEN evaluate(rules[k], i).value
                ELSE <<>>])

AlertsOwedAll == Flatten([k \in 1..Len(waste_out.instances) |-> AlertsOwed(waste_out.instances[k])])

C11_RuleFailureIsolation ==
    /\ waste_out.op = "analyze_instance" =>
          waste_out.value = AlertsOwed(waste_out.instances[1])
    /\ waste_out.op = "analyze" =>
          /\ Len(waste_out.value.alerts) = Len(AlertsOwedAll)
          /\ \A a \in Range(AlertsOwedAll) :
                 Occurrences(waste_out.value.alerts, a) = Occurrences(AlertsOwedAll, a)

\* C11's case: a report over two instances; an enabled rule that is not the last
\* raised for the first and gave an alert for the second, and a rule after it gave
\* an alert for the first
C11_Witness ==
    /\ waste_out.op = "analyze"
    /\ Len(waste_out.instances) = 2
    /\ \E j, k \in 1..Len(rules) :
          /\ j < k
          /\ enabled[rules[j]]
          /\ enabled[rules[k]]
          /\ evaluate(rules[j], waste_out.instances[1]).kind = "raise"
          /\ evaluate(rules[j], waste_out.instances[2]).kind = "ok"
          /\ evaluate(rules[j], waste_out.instances[2]).value # None
          /\ evaluate(rules[j], waste_out.instances[2]).value[1] \in Range(waste_out.value.alerts)
          /\ evaluate(rules[k], waste_out.instances[1]).kind = "ok"
          /\ evaluate(rules[k], waste_out.instances[1]).value # None
          /\ evaluate(rules[k], waste_out.instances[1]).value[1] \in Range(waste_out.value.alerts)

\* C20: the default rules give an instance exactly one low_utilization alert iff
\* it is running with known utilization u, 5 <= u < 30; the alert has severity
\* medium and waste per day hourly_cost * 24 * (1 - u / 100) * 0.5 (that is
\* hourly_cost * 120 * (100 - u) thousandths); no instance gets both an idle_gpu
\* and a low_utilization alert.
LowAlerts(alerts) == SelectSeq(alerts, LAMBDA a : a.waste_type = "low_utilization")

C20_LowUtilizationRule ==
    obs # None =>
        LET low == LowAlerts(obs[1].alerts)
            flagged == /\ inst.status \in RunningSpellings
                       /\ inst.gpu_utilization # None
                       /\ 5 <= inst.gpu_utilization[1]
                       /\ inst.gpu_utilization[1] < 30
        IN /\ IF flagged
              THEN /\ Len(low) = 1
                   /\ low[1].severity = "medium"
                   /\ low[1].estimated_waste_per_day * 100
                         = inst.hourly_cost * 24 * (100 - inst.gpu_utilization[1]) * 500
                   /\ low[1].instance = inst
              ELSE low = <<>>
           /\ ~(low # <<>> /\ IdleAlerts(obs[1].alerts) # <<>>)

\* C20's case: a running instance at the lower end of the band, utilization 5,
\* has been analysed and has its low_utilization alert and no idle_gpu alert
C20_Witness ==
    /\ obs # None
    /\ inst.status \in RunningSpellings
    /\ inst.gpu_utilization = Some(5)
    /\ Len(LowAlerts(obs[1].alerts)) = 1
    /\ IdleAlerts(obs[1].alerts) = <<>>

\* C12: forecast_month returns a forecast whatever the history.  With no usage
\* record it projects the running instances: predicted = sum of hourly_cost * 24
\* * 30, band 80% to 120%, model_type "current_instances".  With records on 1 or 2
\* distinct days, predicted = mean daily cost * 30, band 70% to 130%.  With records
\* on 3 or more distinct days it is the least-squares line through the daily costs
\* (the residuals sum to zero and are orthogonal to the day index), projected to
\* the target month and times 30, never below 0.
HistoryDays(records) == {r.start_time \div 24 : r \in Range(records)}

\* the total cost of each day of the history, the days in calendar order
DailyTotals(records) ==
    LET days == HistoryDays(records)
        nth(n) == CHOOSE d \in days : Cardinality({e \in days : e < d}) = n - 1
    IN [n \in 1..Cardinality(days) |->
           SumSeq(Map(SelectSeq(records, LAMBDA r : r.start_time \div 24 = nth(n)),
                      LAMBDA r : r.cost))]

C12_ForecastTier ==
    fc_out.op = "forecast_month" =>
        LET records == fc_out.input.records
            f == fc_out.value
            days == HistoryDays(records)
            total == SumSeq(Map(records, LAMBDA r : r.cost))
            running == SelectSeq(fc_out.input.instances,
                                 LAMBDA i : i.status \in RunningSpellings)
            y == DailyTotals(records)
            n == Len(y)
            a == polyfit(y).intercept
            b == polyfit(y).slope
            target == IF fc_out.input.target_month = None THEN NextMonth(fc_out.input.now)
                      ELSE fc_out.input.target_month[1]
            at == n + ((target - fc_out.input.now) \div 24)
            \* a + b * at, over the denominator a[2] * b[2]
            line == a[1] * b[2] + b[1] * at * a[2]
        IN CASE records = <<>> ->
                  /\ f.model_type = "current_instances"
                  /\ f.predicted_cost
                        = <<SumSeq(Map(running, LAMBDA i : i.hourly_cost * 24 * 30)), 1>>
                  /\ f.confidence_low[1] * 10 = 8 * f.predicted_cost[1] * f.confidence_low[2]
                  /\ f.confidence_high[1] * 10 = 12 * f.predicted_cost[1] * f.confidence_high[2]
             [] Cardinality(days) \in {1, 2} ->
                  /\ f.predicted_cost[1] * Cardinality(days) = total * 30 * f.predicted_cost[2]
                  /\ f.confidence_low[1] * 10 * Cardinality(days)
                        = 7 * total * 30 * f.confidence_low[2]
                  /\ f.confidence_high[1] * 10 * Cardinality(days)
                        = 13 * total * 30 * f.confidence_high[2]
                  /\ f.data_points_used = Cardinality(days)
             [] OTHER ->
                  /\ f.model_type = "linear_trend"
                  /\ f.data_points_used = Cardinality(days)
                  /\ SumSeq([k \in 1..n |-> y[k] * a[2] * b[2] - a[1] * b[2]
                                                - b[1] * (k - 1) * a[2]]) = 0
                  /\ SumSeq([k \in 1..n |-> (k - 1) * (y[k] * a[2] * b[2] - a[1] * b[2]
                                                          - b[1] * (k - 1) * a[2])]) = 0
                  /\ f.predicted_cost[1] * a[2] * b[2]
                        = (IF line < 0 THEN 0 ELSE line) * 30 * f.predicted_cost[2]

\* C12's cases: a forecast in each of the three tiers
C12_Witness ==
    /\ fc_out.op = "forecast_month"
    /\ Cardinality(HistoryDays(fc_out.input.records)) = 2
    /\ fc_out.value.predicted_cost[1] > 0

C12_TrendReached ==
    /\ fc_out.op = "forecast_month"
    /\ Cardinality(HistoryDays(fc_out.input.records)) >= 3
    /\ fc_out.value.predicted_cost[1] > 0

C12_CurrentReached ==
    /\ fc_out.op = "forecast_month"
    /\ fc_out.input.records = <<>>
    /\ fc_out.value.predicted_cost[1] > 0

\* C13: every forecast of forecast_month has 0 <= confidence_low <= predicted_cost
\* <= confidence_high, in all three tiers (the costs of the records and the hourly
\* costs of the instances are not negative).
C13_BandAroundPrediction ==
    fc_out.op = "forecast_month" =>
        /\ 0 <= fc_out.value.confidence_low[1]
        /\ FracLeq(fc_out.value.confidence_low, fc_out.value.predicted_cost)
        /\ FracLeq(fc_out.value.predicted_cost, fc_out.value.confidence_high)

\* C13's case: a trend forecast whose fitted line is below zero at the target
\* month, returned with predicted_cost 0 and a band above it
C13_Witness ==
    /\ fc_out.op = "forecast_month"
    /\ Cardinality(HistoryDays(fc_out.input.records)) >= 3
    /\ LET y == DailyTotals(fc_out.input.records)
           target == IF fc_out.input.target_month = None THEN NextMonth(fc_out.input.now)
                     ELSE fc_out.input.target_month[1]
           at == Len(y) + ((target - fc_out.input.now) \div 24)
       IN polyfit(y).intercept[1] * polyfit(y).slope[2]
             + polyfit(y).slope[1] * at * polyfit(y).intercept[2] < 0
    /\ fc_out.value.predicted_cost = <<0, 1>>
    /\ fc_out.value.confidence_low = <<0, 1>>
    /\ fc_out.value.confidence_high[1] > 0

\* C14: in every forecast built from a non-empty set of usage records the
\* by_provider values sum to predicted_cost and the by_gpu_type values sum to
\* predicted_cost.
C14_BreakdownsSumToPrediction ==
    (fc_out.op = "forecast_month" /\ fc_out.input.records # <<>>) =>
        /\ FracSum(Map(fc_out.value.by_provider, LAMBDA d : d.cost)) = fc_out.value.predicted_cost
        /\ FracSum(Map(fc_out.value.by_gpu_type, LAMBDA d : d.cost)) = fc_out.value.predicted_cost

\* the same for the forecasts of the trend tier alone
C14_TrendBreakdownsSum ==
    (fc_out.op = "forecast_month" /\ Cardinality(HistoryDays(fc_out.input.records)) >= 3) =>
        /\ FracSum(Map(fc_out.value.by_provider, LAMBDA d : d.cost)) = fc_out.value.predicted_cost
        /\ FracSum(Map(fc_out.value.by_gpu_type, LAMBDA d : d.cost)) = fc_out.value.predicted_cost

\* C18: for a GPU type with a rate table, estimate_training_cost gives
\* estimated_hours > 0, one provider cost per provider of the table, cheapest_cost
\* = the least provider cost = cost_range_low, attained by cheapest_provider,
\* cost_range_high = the greatest provider cost, estimated_cost = the mean of the
\* provider costs, and cost_range_low <= estimated_cost <= cost_range_high.
RateProviders(gpu_type) ==
    CASE gpu_type \in {"a100-40gb", "a100-80gb", "h100-80gb"} ->
           {"aws", "gcp", "azure", "vastai", "runpod", "lambda"}
      [] gpu_type = "rtx-4090" -> {"vastai", "runpod"}
      [] gpu_type = "t4" -> {"aws", "gcp", "azure"}
      [] OTHER -> {}

C18_TrainingEstimate ==
    (fc_out.op = "estimate_training_cost" /\ RateProviders(fc_out.input.gpu_type) # {}) =>
        LET e == fc_out.value
            costs == Map(e.provider_costs, LAMBDA c : c.cost)
        IN /\ e.estimated_hours[1] > 0
           /\ Len(e.provider_costs) = Cardinality(RateProviders(fc_out.input.gpu_type))
           /\ {c.key : c \in Range(e.provider_costs)} = RateProviders(fc_out.input.gpu_type)
           /\ e.cheapest_cost \in Range(costs)
           /\ \A c \in Range(costs) : FracLeq(e.cheapest_cost, c)
           /\ e.cost_range_low = e.cheapest_cost
           /\ \E c \in Range(e.provider_costs) :
                  c.key = e.cheapest_provider /\ c.cost = e.cheapest_cost
           /\ e.cost_range_high \in Range(costs)
           /\ \A c \in Range(costs) : FracLeq(c, e.cost_range_high)
           /\ FracMul(e.estimated_cost, <<Len(costs), 1>>) = FracSum(costs)
           /\ FracLeq(e.cost_range_low, e.estimated_cost)
           /\ FracLeq(e.estimated_cost, e.cost_range_high)

\* C18's case: the estimate for 7 billion parameters on 8 A100-80GB, whose
\* cheapest provider is the last of the table
C18_Witness ==
    /\ fc_out.op = "estimate_training_cost"
    /\ fc_out.input.model_size_params = 7
    /\ fc_out.input.gpu_type = "a100-80gb"
    /\ fc_out.input.gpu_count = 8
    /\ fc_out.value.cheapest_provider = "lambda"
    /\ fc_out.value.cheapest_cost # fc_out.value.cost_range_high

\* C15: the report of generate_recommendations never holds two recommendations
\* with the same (instance_id, rec_type); every recommendation of the report is
\* one of the candidates; and for every pair present among the candidates the
\* report holds one that no candidate of the same pair precedes in the order
\* (priority rank, monthly_savings descending).
RecKey(r) == <<r.instance_id, r.rec_type>>

PriorityRank(p) ==
    CASE p = "critical" -> 0 [] p = "high" -> 1 [] p = "medium" -> 2 [] p = "low" -> 3

Precedes(a, b) ==
    \/ PriorityRank(a.priority) < PriorityRank(b.priority)
    \/ PriorityRank(a.priority) = PriorityRank(b.priority) /\ a.monthly_savings > b.monthly_savings

C15_Deduplicated ==
    rec_out.op = "generate_recommendations" =>
        LET recs == rec_out.value.recommendations
            cands == rec_out.value.candidates
        IN /\ \A j, k \in 1..Len(recs) : j # k => RecKey(recs[j]) # RecKey(recs[k])
           /\ \A r \in Range(recs) : r \in Range(cands)
           /\ \A c \in Range(cands) :
                  \E r \in Range(recs) :
                      /\ RecKey(r) = RecKey(c)
                      /\ \A d \in Range(cands) : RecKey(d) = RecKey(c) => ~Precedes(d, r)

\* C15's case: two candidates for one instance and type with different savings,
\* the one with the higher savings in the report and the other not
C15_Witness ==
    /\ rec_out.op = "generate_recommendations"
    /\ \E c, d \in Range(rec_out.value.candidates) :
          /\ RecKey(c) = RecKey(d)
          /\ c.priority = d.priority
          /\ c.monthly_savings > d.monthly_savings
          /\ c \in Range(rec_out.value.recommendations)
          /\ d \notin Range(rec_out.value.recommendations)

\* C16: the recommendations of a report are ordered by priority rank critical <
\* high < medium < low and, within a priority, by monthly_savings descending; two
\* recommendations with equal priority and savings are in the order of their
\* first occurrence among the candidates (waste report, spot pass, provider pass,
\* scheduling pass).
FirstIndex(s, x) == CHOOSE k \in 1..Len(s) : s[k] = x /\ \A j \in 1..(k - 1) : s[j] # x

C16_ReportOrdered ==
    rec_out.op = "generate_recommendations" =>
        LET recs == rec_out.value.recommendations
            cands == rec_out.value.candidates
        IN \A j, k \in 1..Len(recs) :
               j < k =>
                  /\ ~Precedes(recs[k], recs[j])
                  /\ (~Precedes(recs[j], recs[k]) /\ recs[j] # recs[k]) =>
                        FirstIndex(cands, recs[j]) < FirstIndex(cands, recs[k])

\* C16's case: a report with recommendations of several priorities, two of them
\* with equal priority and equal savings from different passes
C16_Witness ==
    /\ rec_out.op = "generate_recommendations"
    /\ Cardinality({r.priority : r \in Range(rec_out.value.recommendations)}) >= 3
    /\ \E j, k \in 1..Len(rec_out.value.recommendations) :
          /\ j < k
          /\ rec_out.value.recommendations[j].priority
                = rec_out.value.recommendations[k].priority
          /\ rec_out.value.recommendations[j].monthly_savings
                = rec_out.value.recommendations[k].monthly_savings
          /\ rec_out.value.recommendations[j].rec_type
                # rec_out.value.recommendations[k].rec_type

\* C17: the waste-report pass gives one candidate per idle_gpu, spot_opportunity
\* and oversized_instance alert, in the order of the alerts: terminate_idle,
\* switch_to_spot and downsize_instance for the alert's instance, with
\* monthly_savings = waste per day * 30; and two candidates from alerts of the
\* same type and severity have the same priority.
MappedType(waste) ==
    CASE waste = "idle_gpu" -> "terminate_idle"
      [] waste = "spot_opportunity" -> "switch_to_spot"
      [] waste = "oversized_instance" -> "downsize_instance"

C17_WastePass ==
    rec_out.op = "generate_recommendations" =>
        LET mapped == SelectSeq(rec_out.value.alerts,
                                LAMBDA a : a.waste_type \in {"idle_gpu", "spot_opportunity",
                                                             "oversized_instance"})
            from_waste == rec_out.value.from_waste
        IN /\ Len(from_waste) = Len(mapped)
           /\ \A k \in 1..Len(mapped) :
                  /\ from_waste[k].rec_type = MappedType(mapped[k].waste_type)
                  /\ from_waste[k].instance_id = mapped[k].instance.instance_id
                  /\ from_waste[k].monthly_savings = mapped[k].estimated_waste_per_day * 30
           /\ \A j, k \in 1..Len(mapped) :
                  (mapped[j].waste_type = mapped[k].waste_type
                      /\ mapped[j].severity = mapped[k].severity)
                  => from_waste[j].priority = from_waste[k].priority

\* the same without the last conjunct: the 1:1 mapping and the savings
C17_MappingAndSavings ==
    rec_out.op = "generate_recommendations" =>
        LET mapped == SelectSeq(rec_out.value.alerts,
                                LAMBDA a : a.waste_type \in {"idle_gpu", "spot_opportunity",
                                                             "oversized_instance"})
            from_waste == rec_out.value.from_waste
        IN /\ Len(from_waste) = Len(mapped)
           /\ \A k \in 1..Len(mapped) :
                  /\ from_waste[k].rec_type = MappedType(mapped[k].waste_type)
                  /\ from_waste[k].instance_id = mapped[k].instance.instance_id
                  /\ from_waste[k].monthly_savings = mapped[k].estimated_waste_per_day * 30

\* C19: a step of get_summary, analyze, forecast_month or generate_recommendations
\* leaves the aggregator's connector list, the detector's rule list and the
\* enabled flags of the rules as they were, and the instances and usage records
\* in its result are the ones the connectors hold, unchanged.
AnalysisStep ==
    \/ op = "get_summary"
    \/ op' = "get_summary"
    \/ waste_out = NoCall /\ waste_out'.op = "analyze"
    \/ fc_out = NoForecast /\ fc_out'.op = "forecast_month"
    \/ rec_out = NoReport /\ rec_out'.op = "generate_recommendations"

HeldInstances == Range(ResultsInOrder(LAMBDA c : list_gpu_instances(c, gen)))

HeldRecords == Range(ResultsInOrder(LAMBDA c : get_usage(c, gen)))

C19_AnalysesReadOnly ==
    [][AnalysisStep =>
          /\ connectors' = connectors
          /\ gen' = gen
          /\ rules' = rules
          /\ enabled' = enabled
          /\ agg_out'.op = "get_summary" =>
                /\ Range(instances') \subseteq HeldInstances
                /\ Range(usage_records') \subseteq HeldRecords
          /\ waste_out'.op = "analyze" =>
                /\ Range(waste_out'.instances) \subseteq HeldInstances
                /\ \A a \in Range(waste_out'.value.alerts) : a.instance \in HeldInstances
          /\ fc_out'.op = "forecast_month" =>
                /\ Range(fc_out'.input.records) \subseteq HeldRecords
                /\ Range(fc_out'.input.instances) \subseteq HeldInstances
          /\ rec_out'.op = "generate_recommendations" =>
                /\ Range(rec_out'.instances) \subseteq HeldInstances
                /\ \A a \in Range(rec_out'.value.alerts) : a.instance \in HeldInstances
    ]_vars

\* C19's case: analyze has returned a report with alerts over the instances of
\* two connectors, in a detector that holds a disabled rule
C19_Witness ==
    /\ waste_out.op = "analyze"
    /\ Len(connectors) = 2
    /\ waste_out.value.alerts # <<>>
    /\ \E r \in Range(rules) : ~enabled[r]

\* C21: the default rules give an instance exactly one spot_opportunity alert iff
\* it is running, priced on-demand and costs at most 50 per hour; the alert has
\* severity low and waste per day hourly_cost * 24 * 0.6 (hourly_cost * 24 * 600
\* thousandths).  Spot, reserved and preemptible instances and instances above 50
\* per hour get none.
SpotAlerts(alerts) == SelectSeq(alerts, LAMBDA a : a.waste_type = "spot_opportunity")

C21_SpotOpportunityRule ==
    obs # None =>
        LET spot == SpotAlerts(obs[1].alerts)
            flagged == /\ inst.status \in RunningSpellings
                       /\ inst.pricing_type = "on-demand"
                       /\ inst.hourly_cost <= 50
        IN IF flagged
           THEN /\ Len(spot) = 1
                /\ spot[1].severity = "low"
                /\ spot[1].estimated_waste_per_day * 10 = inst.hourly_cost * 24 * 6 * WasteScale
                /\ spot[1].instance = inst
           ELSE spot = <<>>

\* C21's case: a running on-demand instance at exactly 50 per hour has been analysed
\* and has its spot_opportunity alert
C21_Witness ==
    /\ obs # None
    /\ inst.status \in RunningSpellings
    /\ inst.pricing_type = "on-demand"
    /\ inst.hourly_cost = 50
    /\ Len(SpotAlerts(obs[1].alerts)) = 1

\* C21's other case: a running on-demand instance at 51 per hour, and a running
\* reserved instance at 3 per hour, have been analysed and have no such alert
C21_CappedReached ==
    /\ obs # None
    /\ inst.status \in RunningSpellings
    /\ \/ inst.pricing_type = "on-demand" /\ inst.hourly_cost = 51
       \/ inst.pricing_type = "reserved" /\ inst.hourly_cost = 3
    /\ SpotAlerts(obs[1].alerts) = <<>>

\* C22: the default rules give an instance exactly one oversized_instance alert
\* iff it is running, its memory utilization is known and below 30, and its GPU
\* type is A100-80GB, H100-80GB or RTX-4090; the alert has severity medium and
\* waste per day hourly_cost * 24 * 0.3.  Any other GPU type gets none, however
\* low the memory utilization.
OversizedAlerts(alerts) == SelectSeq(alerts, LAMBDA a : a.waste_type = "oversized_instance")

C22_OversizedInstanceRule ==
    obs # None =>
        LET over == OversizedAlerts(obs[1].alerts)
            flagged == /\ inst.status \in RunningSpellings
                       /\ inst.memory_utilization # None
                       /\ inst.memory_utilization[1] < 30
                       /\ inst.gpu_type \in {"a100-80gb", "h100-80gb", "rtx-4090"}
        IN IF flagged
           THEN /\ Len(over) = 1
                /\ over[1].severity = "medium"
                /\ over[1].estimated_waste_per_day * 10 = inst.hourly_cost * 24 * 3 * WasteScale
                /\ over[1].instance = inst
           ELSE over = <<>>

\* C22's case: a running RTX-4090 with memory utilization 29 has been analysed and
\* has its oversized_instance alert
C22_Witness ==
    /\ obs # None
    /\ inst.status \in RunningSpellings
    /\ inst.gpu_type = "rtx-4090"
    /\ inst.memory_utilization = Some(29)
    /\ Len(OversizedAlerts(obs[1].alerts)) = 1

\* C22's other case: a running T4 with memory utilization 10 has been analysed and
\* has no oversized_instance alert
C22_NoTargetReached ==
    /\ obs # None
    /\ inst.status \in RunningSpellings
    /\ inst.gpu_type = "t4"
    /\ inst.memory_utilization = Some(10)
    /\ OversizedAlerts(obs[1].alerts) = <<>>

\* the candidates of the three passes over the instances, which follow those of
\* the waste report in the list generate_recommendations builds
PassCandidates ==
    SubSeq(rec_out.value.candidates, Len(rec_out.value.from_waste) + 1,
           Len(rec_out.value.candidates))
OfType(recs, t) == SelectSeq(recs, LAMBDA r : r.rec_type = t)

\* C23: the spot pass gives every running on-demand instance, whatever its hourly
\* cost, one switch_to_spot candidate with monthly_savings = hourly_cost * 24 * 30
\* * discount iff that value is above 50, the discount being 0.65 for aws, 0.70
\* for gcp, 0.60 for azure and 0.5 otherwise; other instances get none.
SpotPassOwed(i) ==
    LET percent == CASE i.provider = "aws" -> 65
                     [] i.provider = "gcp" -> 70
                     [] i.provider = "azure" -> 60
                     [] OTHER -> 50
        savings == i.hourly_cost * 24 * 30 * percent * (WasteScale \div 100)
    IN IF /\ i.status \in RunningSpellings
          /\ i.pricing_type = "on-demand"
          /\ savings > 50 * WasteScale
       THEN << <<i.instance_id, i.provider, savings>> >>
       ELSE <<>>

C23_SpotPass ==
    rec_out.op = "generate_recommendations" =>
        Map(OfType(PassCandidates, "switch_to_spot"),
            LAMBDA r : <<r.instance_id, r.provider, r.monthly_savings>>)
          = Flatten(Map(rec_out.instances, SpotPassOwed))

\* C23's case: a report over a running on-demand azure instance at 60 per hour,
\* which has its candidate with savings 60 * 24 * 30 * 0.60, and a runpod one
\* with the default discount
C23_Witness ==
    /\ rec_out.op = "generate_recommendations"
    /\ \E r \in Range(OfType(PassCandidates, "switch_to_spot")) :
          r.instance_id = "z-1" /\ r.monthly_savings = 25920 * WasteScale
    /\ \E r \in Range(OfType(PassCandidates, "switch_to_spot")) :
          r.instance_id = "r-1" /\ r.monthly_savings = 360 * WasteScale

\* C23's other case: a running on-demand instance whose savings are not above 50,
\* and a running reserved one, get no candidate from the spot pass
C23_NoneReached ==
    /\ rec_out.op = "generate_recommendations"
    /\ \E i \in Range(rec_out.instances) : i.instance_id = "i-4"
    /\ \A r \in Range(OfType(PassCandidates, "switch_to_spot")) :
          r.instance_id \notin {"i-3", "i-4"}

\* C24: the provider pass gives every running instance at most one change_provider
\* candidate: the alternative with the greatest savings = hourly_cost * 24 * 30 -
\* rate * gpu_count * 24 * 30 among those listed for its GPU type on another
\* provider, iff that greatest savings is above 100; a GPU type without a table
\* gets none.
ProviderPassOwed(i) ==
    LET others == {a \in Range(CHEAPER_ALTERNATIVES(i.gpu_type)) : a.provider # i.provider}
        savings(a) == i.hourly_cost * 24 * 30 * WasteScale - a.rate * i.gpu_count * 24 * 30
        best == CHOOSE a \in others : \A b \in others : savings(a) >= savings(b)
    IN IF i.status \in RunningSpellings /\ others # {} /\ savings(best) > 100 * WasteScale
       THEN << <<i.instance_id, <<"Move to", best.provider>>, savings(best)>> >>
       ELSE <<>>

C24_ProviderPass ==
    rec_out.op = "generate_recommendations" =>
        Map(OfType(PassCandidates, "change_provider"),
            LAMBDA r : <<r.instance_id, r.title, r.monthly_savings>>)
          = Flatten(Map(rec_out.instances, ProviderPassOwed))

\* C24's case: a report over a running RTX-4090 on runpod, whose candidate passes
\* over runpod's own listing and names vastai (1 * 720 - 0.45 * 720 = 396), and a
\* running A100-80GB on azure, whose candidate names lambda
C24_Witness ==
    /\ rec_out.op = "generate_recommendations"
    /\ \E r \in Range(OfType(PassCandidates, "change_provider")) :
          /\ r.instance_id = "r-1"
          /\ r.title = <<"Move to", "vastai">>
          /\ r.monthly_savings = 396 * WasteScale
    /\ \E r \in Range(OfType(PassCandidates, "change_provider")) :
          r.instance_id = "z-3" /\ r.title = <<"Move to", "lambda">>

\* C24's other case: a running A100-80GB that no alternative makes cheaper, and a
\* running T4, get no candidate from the provider pass
C24_NoneReached ==
    /\ rec_out.op = "generate_recommendations"
    /\ \E i \in Range(rec_out.instances) : i.instance_id = "i-1"
    /\ \A r \in Range(OfType(PassCandidates, "change_provider")) :
          r.instance_id \notin {"i-1", "i-4"}

\* the instances of the list get_summary fetched that are running, and idle
RunningOnes(insts) == SelectSeq(insts, LAMBDA i : i.status \in RunningSpellings)
IdleOnes(insts) ==
    SelectSeq(insts, LAMBDA i : /\ i.status \in RunningSpellings
                                /\ i.gpu_utilization # None
                                /\ i.gpu_utilization[1] < 10)

\* the whole days in the window: the d with d days <= end - start < d + 1 days
WindowDays == CHOOSE d \in -2..40 : d * 24 <= window[2] - window[1] /\ window[2] - window[1] < (d + 1) * 24

\* C25: in every summary estimated_waste is the sum over the idle instances of
\* hourly_cost * 24 * window_days, window_days being the whole days of the
\* requested window; it is 0 when no instance is idle, whatever the usage records.
C25_EstimatedWaste ==
    agg_out.op = "get_summary" =>
        /\ agg_out.value.estimated_waste
              = SumSeq(Map(IdleOnes(instances), LAMBDA i : i.hourly_cost * 24 * WindowDays))
        /\ IdleOnes(instances) = <<>> => agg_out.value.estimated_waste = 0

\* C25's case: a summary of a window of 2 days and 2 hours over instances of which
\* two are idle, one of them at 6 per hour, with usage records
C25_Witness ==
    /\ agg_out.op = "get_summary"
    /\ window[2] - window[1] = 50
    /\ Len(IdleOnes(instances)) >= 2
    /\ usage_records # <<>>
    /\ agg_out.value.estimated_waste >= 6 * 24 * 2

\* C25's other case: a summary with usage records and no idle instance
C25_NoIdleReached ==
    /\ agg_out.op = "get_summary"
    /\ instances # <<>>
    /\ IdleOnes(instances) = <<>>
    /\ usage_records # <<>>
    /\ WindowDays > 0

\* C26: in every summary total_instances, running_instances and idle_instances
\* are the numbers of instances, of running and of idle instances in the list the
\* connectors returned, whatever the usage records; idle <= running <= total; and
\* the running_count and idle_count of the by_provider entries sum to
\* running_instances and idle_instances.
C26_InstanceCounts ==
    agg_out.op = "get_summary" =>
        LET summary == agg_out.value
        IN /\ summary.total_instances = Len(instances)
           /\ summary.running_instances = Len(RunningOnes(instances))
           /\ summary.idle_instances = Len(IdleOnes(instances))
           /\ summary.idle_instances <= summary.running_instances
           /\ summary.running_instances <= summary.total_instances
           /\ SumSeq(Map(summary.by_provider, LAMBDA b : b.running_count))
                 = summary.running_instances
           /\ SumSeq(Map(summary.by_provider, LAMBDA b : b.idle_count))
                 = summary.idle_instances

\* C26's case: a summary over stopped, running and idle instances of two
\* providers, one of which has instances and no usage record
C26_Witness ==
    /\ agg_out.op = "get_summary"
    /\ 1 <= agg_out.value.idle_instances
    /\ agg_out.value.idle_instances < agg_out.value.running_instances
    /\ agg_out.value.running_instances < agg_out.value.total_instances
    /\ \E b \in Range(agg_out.value.by_provider) : b.running_count > 0 /\ b.instance_count = 0
    /\ \E b \in Range(agg_out.value.by_provider) : b.running_count > 0 /\ b.instance_count > 0

\* C27: in every summary the total_cost of the by_gpu_type, by_region and
\* by_pricing entries each sum to total_cost, the total_hours of the by_provider,
\* by_gpu_type and by_pricing entries each sum to total_gpu_hours, and no
\* breakdown list has two entries for one key (for by_region the provider and the
\* record's region together).
DistinctBy(entries, Key(_)) ==
    \A j, k \in 1..Len(entries) : Key(entries[j]) = Key(entries[k]) => j = k

C27_RecordsCountedOnce ==
    agg_out.op = "get_summary" =>
        LET summary == agg_out.value
            costs(entries) == SumSeq(Map(entries, LAMBDA b : b.total_cost))
            hours(entries) == SumSeq(Map(entries, LAMBDA b : b.total_hours))
        IN /\ costs(summary.by_gpu_type) = summary.total_cost
           /\ costs(summary.by_region) = summary.total_cost
           /\ costs(summary.by_pricing) = summary.total_cost
           /\ hours(summary.by_provider) = summary.total_gpu_hours
           /\ hours(summary.by_gpu_type) = summary.total_gpu_hours
           /\ hours(summary.by_pricing) = summary.total_gpu_hours
           /\ DistinctBy(summary.by_provider, LAMBDA b : b.provider)
           /\ DistinctBy(summary.by_gpu_type, LAMBDA b : b.gpu_type)
           /\ DistinctBy(summary.by_pricing, LAMBDA b : b.pricing_type)
           /\ Len(summary.by_region)
                 = Cardinality({<<r.provider, r.region>> : r \in Range(usage_records)})

\* C27's case: a summary over five records of two providers, where one GPU type,
\* one region and one pricing type each take several records
C27_Witness ==
    /\ agg_out.op = "get_summary"
    /\ Len(usage_records) >= 5
    /\ agg_out.value.total_cost > 0
    /\ Len(agg_out.value.by_gpu_type) >= 2
    /\ Len(agg_out.value.by_pricing) >= 3
    /\ Len(agg_out.value.by_region) >= 3
    /\ \E b \in Range(agg_out.value.by_region) : b.instance_count >= 2
    /\ \E b \in Range(agg_out.value.by_pricing) : b.instance_count >= 2

\* C28: whatever rules are enabled, disabled, added or removed on one detector
\* built with the default rule set, another detector built with the default rule
\* set gives an instance the alerts it gives when nothing was configured.
UnconfiguredAlerts == analyze_instance(DEFAULT_RULES, [r \in RuleObjects |-> TRUE], inst)

C28_ConfigurationPrivate ==
    obs # None => obs[1].alerts = UnconfiguredAlerts

\* the part of C28 about the rule list: when every rule object is enabled,
\* whatever was added to or removed from the first detector's list, the other
\* detector gives the alerts of the default rules
C28_RuleListPrivate ==
    [][(obs' # None /\ obs' # obs /\ rules # DEFAULT_RULES /\ \A r \in RuleObjects : enabled[r])
          => obs'[1].alerts = UnconfiguredAlerts]_vars

\* the case of C28_RuleListPrivate: the first detector's idle_gpu rule was removed,
\* and the other detector has given a running idle instance its idle_gpu alert
C28_RuleListReached ==
    /\ obs # None
    /\ "IdleGPURule" \notin Range(rules)
    /\ \A r \in RuleObjects : enabled[r]
    /\ IdleAlerts(obs[1].alerts) # <<>>

\* C29: for instances with hourly_cost >= 0, every alert of the waste report and
\* every candidate and recommendation of the report is about a running instance
\* of the analysed list, with waste per day (monthly savings) >= 0; a stopped or
\* terminated instance gets none, whatever its utilization, pricing or tags.
C29_OnlyRunningFlagged ==
    rec_out.op = "generate_recommendations" =>
        /\ \A a \in Range(rec_out.value.alerts) :
              /\ a.instance \in Range(rec_out.instances)
              /\ a.instance.status \in RunningSpellings
              /\ a.estimated_waste_per_day >= 0
        /\ \A r \in Range(rec_out.value.candidates) \cup Range(rec_out.value.recommendations) :
              /\ r.monthly_savings >= 0
              /\ \E i \in Range(rec_out.instances) : i.instance_id = r.instance_id
              /\ \A i \in Range(rec_out.instances) :
                    i.instance_id = r.instance_id => i.status \in RunningSpellings

\* C29's case: a report with alerts and recommendations over a list that holds a
\* stopped on-demand H100 with a dev tag, utilization 0 and memory utilization 5,
\* and a stopped spot instance
C29_Witness ==
    /\ rec_out.op = "generate_recommendations"
    /\ \E i \in Range(rec_out.instances) :
          /\ i.instance_id = "z-2"
          /\ i.status = "stopped"
          /\ has_dev_tag(i.tags)
          /\ i.pricing_type = "on-demand"
    /\ \E i \in Range(rec_out.instances) : i.instance_id = "i-2" /\ i.status = "stopped"
    /\ rec_out.value.alerts # <<>>
    /\ \E r \in Range(rec_out.value.recommendations) : r.rec_type = "schedule_shutdown"

\* C30: when a running on-demand instance at 50 per hour or less has a
\* switch_to_spot candidate from its spot_opportunity alert (hourly_cost * 24 * 30
\* * 0.6) and one from the spot pass (hourly_cost * 24 * 30 * provider discount),
\* the report holds exactly one switch_to_spot recommendation for it, with the
\* larger of the two savings; it is the waste-report candidate when they are equal.
SpotFromAlert(id) ==
    SelectSeq(OfType(rec_out.value.from_waste, "switch_to_spot"), LAMBDA r : r.instance_id = id)
SpotFromPass(id) ==
    SelectSeq(OfType(PassCandidates, "switch_to_spot"), LAMBDA r : r.instance_id = id)
SpotInReport(id) ==
    SelectSeq(OfType(rec_out.value.recommendations, "switch_to_spot"),
              LAMBDA r : r.instance_id = id)

C30_SpotAdviceMerged ==
    rec_out.op = "generate_recommendations" =>
        \A i \in Range(rec_out.instances) :
            (SpotFromAlert(i.instance_id) # <<>> /\ SpotFromPass(i.instance_id) # <<>>) =>
                LET alert_savings == i.hourly_cost * 24 * 30 * 6 * (WasteScale \div 10)
                    pass_savings == SpotFromPass(i.instance_id)[1].monthly_savings
                    kept == SpotInReport(i.instance_id)
                IN /\ i.status \in RunningSpellings
                   /\ i.pricing_type = "on-demand"
                   /\ i.hourly_cost <= 50
                   /\ SpotFromAlert(i.instance_id)[1].monthly_savings = alert_savings
                   /\ Len(kept) = 1
                   /\ kept[1].monthly_savings
                         = (IF pass_savings > alert_savings THEN pass_savings ELSE alert_savings)
                   /\ kept[1] = (IF pass_savings > alert_savings
                                 THEN SpotFromPass(i.instance_id)[1]
                                 ELSE SpotFromAlert(i.instance_id)[1])

\* C30's case: an azure instance, for which the two candidates have equal savings
\* 4 * 24 * 30 * 0.6, is in the report with the waste report's candidate
C30_Witness ==
    /\ rec_out.op = "generate_recommendations"
    /\ SpotFromAlert("z-3") # <<>>
    /\ SpotFromPass("z-3") # <<>>
    /\ SpotFromPass("z-3")[1].monthly_savings = SpotFromAlert("z-3")[1].monthly_savings
    /\ SpotFromPass("z-3")[1] # SpotFromAlert("z-3")[1]
    /\ SpotInReport("z-3") = <<SpotFromAlert("z-3")[1]>>

\* C30's other cases: an aws instance, where the spot pass gives more (0.65), and
\* a runpod instance, where the alert gives more (0.6 against 0.5)
C30_PassLargerReached ==
    /\ rec_out.op = "generate_recommendations"
    /\ SpotFromAlert("i-1") # <<>>
    /\ SpotInReport("i-1") = <<SpotFromPass("i-1")[1]>>
    /\ SpotFromPass("i-1")[1].monthly_savings > SpotFromAlert("i-1")[1].monthly_savings

C30_AlertLargerReached ==
    /\ rec_out.op = "generate_recommendations"
    /\ SpotFromPass("r-1") # <<>>
    /\ SpotInReport("r-1") = <<SpotFromAlert("r-1")[1]>>
    /\ SpotFromAlert("r-1")[1].monthly_savings > SpotFromPass("r-1")[1].monthly_savings

====
